---- MODULE Spec2Model ----
(***************************************************************************)
(* Model of the FACEIT Data API client (src/src/http/client.rs,            *)
(* src/src/types.rs).                                                      *)
(*                                                                         *)
(* A text (Rust String / &str) is a sequence of lexemes, each lexeme a     *)
(* TLA+ string; format!() and String concatenation are \o.  A literal of   *)
(* the source is one lexeme, a number rendered by to_string() is one       *)
(* lexeme per character, a JSON body is one lexeme per JSON token.         *)
(***************************************************************************)
EXTENDS Integers, Sequences, FiniteSets, TLC

VARIABLES client, call, builder, handle, parked, dto

vars == <<client, call, builder, handle, parked, dto>>

(***************************************************************************)
(* Texts                                                                   *)
(***************************************************************************)

\* s occurs in t as a contiguous run of lexemes (str::contains)
Contains(t, s) ==
    \E i \in 1..(Len(t) - Len(s) + 1) : SubSeq(t, i, i + Len(s) - 1) = s

\* one decimal digit as a character
DigitChar(d) ==
    CASE d = 0 -> "0" [] d = 1 -> "1" [] d = 2 -> "2" [] d = 3 -> "3"
      [] d = 4 -> "4" [] d = 5 -> "5" [] d = 6 -> "6" [] d = 7 -> "7"
      [] d = 8 -> "8" [] d = 9 -> "9"

RECURSIVE Digits(_)
Digits(n) == IF n < 10 THEN <<DigitChar(n)>>
             ELSE Digits(n \div 10) \o <<DigitChar(n % 10)>>

\* to_string without the sign of a negative value
to_string_NoSign(n) == IF n < 0 THEN Digits(0 - n) ELSE Digits(n)

\* i64::to_string: plain decimal, '-' in front of a negative value
to_string(n) == IF n < 0 THEN <<"-">> \o Digits(0 - n) ELSE Digits(n)

\* [&str]::join(sep)
RECURSIVE Join(_, _)
Join(list, sep) ==
    IF list = <<>> THEN <<>>
    ELSE IF Len(list) = 1 THEN list[1]
    ELSE list[1] \o sep \o Join(Tail(list), sep)

(***************************************************************************)
(* Option<T> arguments.  One record shape for every argument type, so that *)
(* arguments of different types can sit in one structure: i holds an i64,  *)
(* s a &str, l a &[&str].                                                  *)
(***************************************************************************)
None == [some |-> FALSE, i |-> 0, s |-> <<>>, l |-> <<>>]

SomeInt(n) == [some |-> TRUE, i |-> n, s |-> <<>>, l |-> <<>>]

SomeStr(t) == [some |-> TRUE, i |-> 0, s |-> t, l |-> <<>>]

SomeList(x) == [some |-> TRUE, i |-> 0, s |-> <<>>, l |-> x]

(***************************************************************************)
(* The operations of Client.  Each is given by what its body does before   *)
(* sending: the URL template after the base URL, cut at its placeholders,  *)
(* the parameters in the order of its request.query() calls, and the type  *)
(* the response is decoded into.  A parameter is                           *)
(*   [name: the query name, arg: the argument, kind: "str" | "i64" |       *)
(*    "list", required: added unconditionally or under 'if let Some'].     *)
(***************************************************************************)
Req(name, arg, kind) == [name |-> name, arg |-> arg, kind |-> kind, required |-> TRUE]

Opt(name, arg, kind) == [name |-> name, arg |-> arg, kind |-> kind, required |-> FALSE]

OffsetLimit == <<Opt("offset", "offset", "i64"), Opt("limit", "limit", "i64")>>

Ops ==
    {"get_player", "get_player_from_lookup", "get_player_stats",
     "get_player_history", "get_player_bans", "get_player_hubs",
     "get_player_teams", "get_player_tournaments", "get_match",
     "get_match_stats", "get_all_games", "get_game", "get_parent_game",
     "get_game_matchmakings", "get_hub", "get_hub_matches", "get_hub_members",
     "get_hub_stats", "get_championships", "get_championship",
     "get_championship_matches", "search_players", "search_teams",
     "search_hubs", "get_global_ranking", "get_player_ranking"}

OpDef(op) ==
      \* client.rs 222-229
    CASE op = "get_player" ->
            [path |-> <<"/data/v4/players/", "{player_id}">>, params |-> <<>>, result |-> "Player"]
      \* client.rs 256-278
      [] op = "get_player_from_lookup" ->
            [path |-> <<"/data/v4/players">>,
             params |-> <<Opt("nickname", "nickname", "str"), Opt("game", "game", "str"),
                          Opt("game_player_id", "game_player_id", "str")>>,
             result |-> "Player"]
      \* client.rs 302-316
      [] op = "get_player_stats" ->
            [path |-> <<"/data/v4/players/", "{player_id}", "/stats/", "{game_id}">>,
             params |-> <<>>, result |-> "PlayerStats"]
      \* client.rs 346-375
      [] op = "get_player_history" ->
            [path |-> <<"/data/v4/players/", "{player_id}", "/history">>,
             params |-> <<Req("game", "game", "str"), Opt("from", "from", "i64"),
                          Opt("to", "to", "i64")>> \o OffsetLimit,
             result |-> "MatchHistoryList"]
      \* client.rs 402-421
      [] op = "get_player_bans" ->
            [path |-> <<"/data/v4/players/", "{player_id}", "/bans">>,
             params |-> OffsetLimit, result |-> "PlayerBansList"]
      \* client.rs 448-467
      [] op = "get_player_hubs" ->
            [path |-> <<"/data/v4/players/", "{player_id}", "/hubs">>,
             params |-> OffsetLimit, result |-> "HubsList"]
      \* client.rs 494-513
      [] op = "get_player_teams" ->
            [path |-> <<"/data/v4/players/", "{player_id}", "/teams">>,
             params |-> OffsetLimit, result |-> "TeamList"]
      \* client.rs 540-562
      [] op = "get_player_tournaments" ->
            [path |-> <<"/data/v4/players/", "{player_id}", "/tournaments">>,
             params |-> OffsetLimit, result |-> "TournamentsList"]
      \* client.rs 591-598
      [] op = "get_match" ->
            [path |-> <<"/data/v4/matches/", "{match_id}">>, params |-> <<>>, result |-> "Match"]
      \* client.rs 623-630
      [] op = "get_match_stats" ->
            [path |-> <<"/data/v4/matches/", "{match_id}", "/stats">>, params |-> <<>>,
             result |-> "MatchStats"]
      \* client.rs 658-676
      [] op = "get_all_games" ->
            [path |-> <<"/data/v4/games">>, params |-> OffsetLimit, result |-> "GamesList"]
      \* client.rs 701-708
      [] op = "get_game" ->
            [path |-> <<"/data/v4/games/", "{game_id}">>, params |-> <<>>, result |-> "Game"]
      \* client.rs 727-734
      [] op = "get_parent_game" ->
            [path |-> <<"/data/v4/games/", "{game_id}", "/parent">>, params |-> <<>>,
             result |-> "Game"]
      \* client.rs 762-785
      [] op = "get_game_matchmakings" ->
            [path |-> <<"/data/v4/games/", "{game_id}", "/matchmakings">>,
             params |-> <<Opt("region", "region", "str")>> \o OffsetLimit,
             result |-> "MatchmakingList"]
      \* client.rs 813-825
      [] op = "get_hub" ->
            [path |-> <<"/data/v4/hubs/", "{hub_id}">>,
             params |-> <<Opt("expanded", "expanded", "list")>>, result |-> "Hub"]
      \* client.rs 853-876
      [] op = "get_hub_matches" ->
            [path |-> <<"/data/v4/hubs/", "{hub_id}", "/matches">>,
             params |-> <<Opt("type", "match_type", "str")>> \o OffsetLimit,
             result |-> "MatchesList"]
      \* client.rs 903-922
      [] op = "get_hub_members" ->
            [path |-> <<"/data/v4/hubs/", "{hub_id}", "/members">>,
             params |-> OffsetLimit, result |-> "HubMembers"]
      \* client.rs 949-968
      [] op = "get_hub_stats" ->
            [path |-> <<"/data/v4/hubs/", "{hub_id}", "/stats">>,
             params |-> OffsetLimit, result |-> "HubStats"]
      \* client.rs 1000-1024
      [] op = "get_championships" ->
            [path |-> <<"/data/v4/championships">>,
             params |-> <<Req("game", "game", "str"),
                          Opt("type", "championship_type", "str")>> \o OffsetLimit,
             result |-> "ChampionshipsList"]
      \* client.rs 1050-1069
      [] op = "get_championship" ->
            [path |-> <<"/data/v4/championships/", "{championship_id}">>,
             params |-> <<Opt("expanded", "expanded", "list")>>,
             result |-> "Championship"]
      \* client.rs 1097-1123
      [] op = "get_championship_matches" ->
            [path |-> <<"/data/v4/championships/", "{championship_id}", "/matches">>,
             params |-> <<Opt("type", "match_type", "str")>> \o OffsetLimit,
             result |-> "MatchesList"]
      \* client.rs 1156-1184
      [] op = "search_players" ->
            [path |-> <<"/data/v4/search/players">>,
             params |-> <<Req("nickname", "nickname", "str"), Opt("game", "game", "str"),
                          Opt("country", "country", "str")>> \o OffsetLimit,
             result |-> "UsersSearchList"]
      \* client.rs 1212-1236
      [] op = "search_teams" ->
            [path |-> <<"/data/v4/search/teams">>,
             params |-> <<Req("nickname", "nickname", "str"),
                          Opt("game", "game", "str")>> \o OffsetLimit,
             result |-> "TeamsSearchList"]
      \* client.rs 1265-1293
      [] op = "search_hubs" ->
            [path |-> <<"/data/v4/search/hubs">>,
             params |-> <<Req("name", "name", "str"), Opt("game", "game", "str"),
                          Opt("region", "region", "str")>> \o OffsetLimit,
             result |-> "CompetitionsSearchList"]
      \* client.rs 1326-1353
      [] op = "get_global_ranking" ->
            [path |-> <<"/data/v4/rankings/games/", "{game_id}", "/regions/", "{region}">>,
             params |-> <<Opt("country", "country", "str")>> \o OffsetLimit,
             result |-> "GlobalRankingList"]
      \* client.rs 1382-1406
      [] op = "get_player_ranking" ->
            [path |-> <<"/data/v4/rankings/games/", "{game_id}", "/regions/", "{region}",
                        "/players/", "{player_id}">>,
             params |-> <<Opt("country", "country", "str"), Opt("limit", "limit", "i64")>>,
             result |-> "PlayerGlobalRanking"]

(***************************************************************************)
(* The response types of src/src/types.rs.  A struct is the sequence of    *)
(* its fields in declaration order; a field has the name it carries in     *)
(* JSON (after serde(rename)), its type and whether it is an Option.       *)
(* No struct carries serde(default) or serde(deny_unknown_fields).         *)
(***************************************************************************)
One(t) == [c |-> "one", t |-> t]

Vec(t) == [c |-> "vec", t |-> t]

Map(t) == [c |-> "map", t |-> t]

Mandatory(name, ty) == [name |-> name, ty |-> ty, optional |-> FALSE]

Optional(name, ty) == [name |-> name, ty |-> ty, optional |-> TRUE]

StructNames ==
    {"Pagination", "Player", "GameDetail", "UserSettings", "PlayerStats",
     "PlayerBan", "PlayerBansList", "Match", "MatchResult", "DetailedMatchResult",
     "FactionResult", "Faction", "Roster", "Stats", "SkillLevel",
     "SkillLevelRange", "MatchStats", "RoundStats", "TeamStatsSimple", "PlayerStatsSimple",
     "MatchHistory", "HistoryFaction", "MatchHistoryPlayer", "GamesList", "MatchesList",
     "MatchHistoryList", "Game", "GameAssets", "Hub", "HubMembers",
     "HubUser", "HubStats", "StatsCompetitionPlayer", "HubsList", "Championship",
     "Prize", "JoinCheck", "ChampionshipSchedule", "ChampionshipScreening", "ChampionshipStream",
     "SubstitutionConfiguration", "ChampionshipsList", "Organizer", "Team", "UserSimple",
     "TeamStats", "TeamList", "UserSearch", "GameUserSearch", "UsersSearchList",
     "TeamSearch", "TeamsSearchList", "CompetitionSearch", "CompetitionsSearchList", "GlobalRanking",
     "GlobalRankingList", "PlayerGlobalRanking", "Tournament", "TournamentsList", "Matchmaking",
     "MatchmakingQueue", "MatchmakingList", "MatchmakingSlim", "TournamentSimple"}

Fields(T) ==
      \* types.rs 10-13
    CASE T = "Pagination" ->
            <<Mandatory("start", One("i64")),
              Mandatory("end", One("i64"))>>
      \* types.rs 21-51
      [] T = "Player" ->
            <<Mandatory("player_id", One("String")),
              Mandatory("nickname", One("String")),
              Optional("avatar", One("String")),
              Optional("country", One("String")),
              Optional("faceit_url", One("String")),
              Optional("steam_id_64", One("String")),
              Optional("steam_nickname", One("String")),
              Optional("new_steam_id", One("String")),
              Optional("memberships", Vec("String")),
              Optional("games", Map("GameDetail")),
              Optional("verified", One("bool")),
              Optional("activated_at", One("DateTime")),
              Optional("cover_image", One("String")),
              Optional("friends_ids", Vec("String")),
              Optional("platforms", Map("String")),
              Optional("settings", One("UserSettings"))>>
      \* types.rs 55-70
      [] T = "GameDetail" ->
            <<Optional("faceit_elo", One("i64")),
              Optional("game_player_id", One("String")),
              Optional("game_player_name", One("String")),
              Optional("game_profile_id", One("String")),
              Optional("region", One("String")),
              Optional("regions", Vec("String")),
              Optional("skill_level", One("i64")),
              Optional("skill_level_label", One("String"))>>
      \* types.rs 74-76
      [] T = "UserSettings" ->
            <<Optional("language", One("String"))>>
      \* types.rs 80-87
      [] T = "PlayerStats" ->
            <<Mandatory("player_id", One("String")),
              Mandatory("game_id", One("String")),
              Optional("lifetime", One("Value")),
              Optional("segments", Vec("Value"))>>
      \* types.rs 91-103
      [] T = "PlayerBan" ->
            <<Mandatory("user_id", One("String")),
              Mandatory("nickname", One("String")),
              Mandatory("game", One("String")),
              Mandatory("starts_at", One("DateTime")),
              Mandatory("ends_at", One("DateTime")),
              Mandatory("type", One("String")),
              Mandatory("reason", One("String"))>>
      \* types.rs 107-111
      [] T = "PlayerBansList" ->
            <<Mandatory("start", One("i64")),
              Mandatory("end", One("i64")),
              Mandatory("items", Vec("PlayerBan"))>>
      \* types.rs 119-163
      [] T = "Match" ->
            <<Mandatory("match_id", One("String")),
              Mandatory("game", One("String")),
              Optional("region", One("String")),
              Optional("competition_id", One("String")),
              Optional("competition_type", One("String")),
              Optional("competition_name", One("String")),
              Optional("organizer_id", One("String")),
              Optional("teams", Map("Faction")),
              Mandatory("status", One("String")),
              Optional("started_at", One("i64")),
              Optional("finished_at", One("i64")),
              Optional("scheduled_at", One("i64")),
              Optional("configured_at", One("i64")),
              Optional("best_of", One("i64")),
              Optional("results", One("MatchResult")),
              Optional("detailed_results", Vec("DetailedMatchResult")),
              Optional("round", One("i64")),
              Optional("group", One("i64")),
              Optional("faceit_url", One("String")),
              Optional("chat_room_id", One("String")),
              Optional("demo_url", Vec("String")),
              Optional("calculate_elo", One("bool")),
              Optional("broadcast_start_time", One("i64")),
              Optional("broadcast_start_time_label", One("String")),
              Optional("version", One("i64")),
              Optional("voting", One("Value"))>>
      \* types.rs 167-170
      [] T = "MatchResult" ->
            <<Optional("score", Map("i64")),
              Optional("winner", One("String"))>>
      \* types.rs 174-179
      [] T = "DetailedMatchResult" ->
            <<Optional("asc_score", One("bool")),
              Optional("factions", Map("FactionResult")),
              Optional("winner", One("String"))>>
      \* types.rs 183-185
      [] T = "FactionResult" ->
            <<Mandatory("score", One("i64"))>>
      \* types.rs 189-200
      [] T = "Faction" ->
            <<Optional("faction_id", One("String")),
              Optional("leader", One("String")),
              Optional("avatar", One("String")),
              Optional("name", One("String")),
              Optional("type", One("String")),
              Optional("roster", Vec("Roster")),
              Optional("stats", One("Stats")),
              Optional("substituted", One("bool"))>>
      \* types.rs 204-218
      [] T = "Roster" ->
            <<Mandatory("player_id", One("String")),
              Mandatory("nickname", One("String")),
              Optional("avatar", One("String")),
              Optional("game_player_id", One("String")),
              Optional("game_player_name", One("String")),
              Optional("game_skill_level", One("i64")),
              Optional("anticheat_required", One("bool")),
              Optional("membership", One("String"))>>
      \* types.rs 222-228
      [] T = "Stats" ->
            <<Optional("rating", One("i64")),
              Optional("skillLevel", One("SkillLevel")),
              Optional("winProbability", One("f64"))>>
      \* types.rs 232-235
      [] T = "SkillLevel" ->
            <<Optional("average", One("i64")),
              Optional("range", One("SkillLevelRange"))>>
      \* types.rs 239-242
      [] T = "SkillLevelRange" ->
            <<Optional("min", One("i64")),
              Optional("max", One("i64"))>>
      \* types.rs 246-248
      [] T = "MatchStats" ->
            <<Mandatory("rounds", Vec("RoundStats"))>>
      \* types.rs 252-269
      [] T = "RoundStats" ->
            <<Optional("match_id", One("String")),
              Optional("game_id", One("String")),
              Optional("competition_id", One("String")),
              Optional("game_mode", One("String")),
              Optional("match_round", One("i64")),
              Optional("played", One("i64")),
              Optional("best_of", One("i64")),
              Optional("round_stats", One("Value")),
              Optional("teams", Vec("TeamStatsSimple"))>>
      \* types.rs 273-280
      [] T = "TeamStatsSimple" ->
            <<Optional("team_id", One("String")),
              Optional("premade", One("bool")),
              Optional("team_stats", One("Value")),
              Optional("players", Vec("PlayerStatsSimple"))>>
      \* types.rs 284-290
      [] T = "PlayerStatsSimple" ->
            <<Optional("player_id", One("String")),
              Optional("nickname", One("String")),
              Optional("player_stats", One("Value"))>>
      \* types.rs 294-328
      [] T = "MatchHistory" ->
            <<Mandatory("match_id", One("String")),
              Mandatory("game_id", One("String")),
              Optional("region", One("String")),
              Optional("match_type", One("String")),
              Optional("game_mode", One("String")),
              Optional("max_players", One("i64")),
              Optional("teams_size", One("i64")),
              Optional("teams", Map("HistoryFaction")),
              Optional("playing_players", Vec("String")),
              Optional("competition_id", One("String")),
              Optional("competition_name", One("String")),
              Optional("competition_type", One("String")),
              Optional("organizer_id", One("String")),
              Optional("started_at", One("i64")),
              Optional("finished_at", One("i64")),
              Mandatory("status", One("String")),
              Optional("results", One("MatchResult")),
              Optional("faceit_url", One("String"))>>
      \* types.rs 332-340
      [] T = "HistoryFaction" ->
            <<Optional("team_id", One("String")),
              Optional("nickname", One("String")),
              Optional("avatar", One("String")),
              Optional("type", One("String")),
              Optional("players", Vec("MatchHistoryPlayer"))>>
      \* types.rs 344-357
      [] T = "MatchHistoryPlayer" ->
            <<Mandatory("player_id", One("String")),
              Mandatory("nickname", One("String")),
              Optional("avatar", One("String")),
              Optional("faceit_url", One("String")),
              Optional("game_player_id", One("String")),
              Optional("game_player_name", One("String")),
              Optional("skill_level", One("i64"))>>
      \* types.rs 365-369
      [] T = "GamesList" ->
            <<Mandatory("start", One("i64")),
              Mandatory("end", One("i64")),
              Mandatory("items", Vec("Game"))>>
      \* types.rs 373-377
      [] T = "MatchesList" ->
            <<Mandatory("start", One("i64")),
              Mandatory("end", One("i64")),
              Mandatory("items", Vec("Match"))>>
      \* types.rs 381-387
      [] T = "MatchHistoryList" ->
            <<Mandatory("start", One("i64")),
              Mandatory("end", One("i64")),
              Optional("from", One("i64")),
              Optional("to", One("i64")),
              Mandatory("items", Vec("MatchHistory"))>>
      \* types.rs 395-408
      [] T = "Game" ->
            <<Mandatory("game_id", One("String")),
              Mandatory("short_label", One("String")),
              Mandatory("long_label", One("String")),
              Optional("assets", One("GameAssets")),
              Optional("platforms", Vec("String")),
              Optional("regions", Vec("String")),
              Optional("order", One("i64")),
              Optional("parent_game_id", One("String"))>>
      \* types.rs 412-430
      [] T = "GameAssets" ->
            <<Optional("cover", One("String")),
              Optional("featured_img_l", One("String")),
              Optional("featured_img_m", One("String")),
              Optional("featured_img_s", One("String")),
              Optional("flag_img_icon", One("String")),
              Optional("flag_img_l", One("String")),
              Optional("flag_img_m", One("String")),
              Optional("flag_img_s", One("String")),
              Optional("landing_page", One("String"))>>
      \* types.rs 438-471
      [] T = "Hub" ->
            <<Mandatory("hub_id", One("String")),
              Mandatory("name", One("String")),
              Optional("avatar", One("String")),
              Mandatory("game_id", One("String")),
              Optional("game_data", One("Game")),
              Mandatory("organizer_id", One("String")),
              Optional("organizer_data", One("Organizer")),
              Optional("region", One("String")),
              Optional("description", One("String")),
              Optional("faceit_url", One("String")),
              Optional("cover_image", One("String")),
              Optional("background_image", One("String")),
              Optional("chat_room_id", One("String")),
              Optional("join_permission", One("String")),
              Optional("min_skill_level", One("i64")),
              Optional("max_skill_level", One("i64")),
              Optional("players_joined", One("i64")),
              Optional("rule_id", One("String"))>>
      \* types.rs 475-479
      [] T = "HubMembers" ->
            <<Mandatory("start", One("i64")),
              Mandatory("end", One("i64")),
              Mandatory("items", Vec("HubUser"))>>
      \* types.rs 483-491
      [] T = "HubUser" ->
            <<Mandatory("user_id", One("String")),
              Mandatory("nickname", One("String")),
              Optional("avatar", One("String")),
              Optional("faceit_url", One("String")),
              Optional("roles", Vec("String"))>>
      \* types.rs 495-499
      [] T = "HubStats" ->
            <<Mandatory("game_id", One("String")),
              Mandatory("players", Vec("StatsCompetitionPlayer"))>>
      \* types.rs 503-508
      [] T = "StatsCompetitionPlayer" ->
            <<Mandatory("player_id", One("String")),
              Mandatory("nickname", One("String")),
              Mandatory("stats", One("Value"))>>
      \* types.rs 512-516
      [] T = "HubsList" ->
            <<Mandatory("start", One("i64")),
              Mandatory("end", One("i64")),
              Mandatory("items", Vec("Hub"))>>
      \* types.rs 524-588
      [] T = "Championship" ->
            <<Mandatory("championship_id", One("String")),
              Optional("id", One("String")),
              Mandatory("name", One("String")),
              Optional("description", One("String")),
              Mandatory("game_id", One("String")),
              Optional("game_data", One("Game")),
              Mandatory("organizer_id", One("String")),
              Optional("organizer_data", One("Organizer")),
              Optional("region", One("String")),
              Optional("avatar", One("String")),
              Optional("cover_image", One("String")),
              Optional("background_image", One("String")),
              Optional("faceit_url", One("String")),
              Mandatory("status", One("String")),
              Optional("championship_start", One("i64")),
              Optional("subscription_start", One("i64")),
              Optional("subscription_end", One("i64")),
              Optional("checkin_start", One("i64")),
              Optional("checkin_clear", One("i64")),
              Optional("checkin_enabled", One("bool")),
              Optional("current_subscriptions", One("i64")),
              Optional("slots", One("i64")),
              Optional("full", One("bool")),
              Optional("subscriptions_locked", One("bool")),
              Optional("featured", One("bool")),
              Optional("anticheat_required", One("bool")),
              Optional("prizes", Vec("Prize")),
              Optional("total_prizes", One("i64")),
              Optional("total_rounds", One("i64")),
              Optional("total_groups", One("i64")),
              Optional("seeding_strategy", One("String")),
              Optional("rules_id", One("String")),
              Optional("join_checks", One("JoinCheck")),
              Optional("schedule", Map("ChampionshipSchedule")),
              Optional("screening", One("ChampionshipScreening")),
              Optional("stream", One("ChampionshipStream")),
              Optional("substitution_configuration", One("SubstitutionConfiguration")),
              Optional("type", One("String"))>>
      \* types.rs 592-596
      [] T = "Prize" ->
            <<Mandatory("rank", One("i64")),
              Optional("faceit_points", One("i64"))>>
      \* types.rs 600-617
      [] T = "JoinCheck" ->
            <<Optional("join_policy", One("String")),
              Optional("membership_type", One("String")),
              Optional("min_skill_level", One("i64")),
              Optional("max_skill_level", One("i64")),
              Optional("allowed_team_types", Vec("String")),
              Optional("whitelist_geo_countries", Vec("String")),
              Optional("whitelist_geo_countries_min_players", One("i64")),
              Optional("blacklist_geo_countries", Vec("String"))>>
      \* types.rs 621-624
      [] T = "ChampionshipSchedule" ->
            <<Mandatory("date", One("i64")),
              Mandatory("status", One("String"))>>
      \* types.rs 628-631
      [] T = "ChampionshipScreening" ->
            <<Mandatory("enabled", One("bool")),
              Mandatory("id", One("String"))>>
      \* types.rs 635-640
      [] T = "ChampionshipStream" ->
            <<Mandatory("active", One("bool")),
              Optional("platform", One("String")),
              Optional("source", One("String")),
              Optional("title", One("String"))>>
      \* types.rs 644-649
      [] T = "SubstitutionConfiguration" ->
            <<Optional("max_substitutes", One("i64")),
              Optional("max_substitutions", One("i64"))>>
      \* types.rs 653-657
      [] T = "ChampionshipsList" ->
            <<Mandatory("start", One("i64")),
              Mandatory("end", One("i64")),
              Mandatory("items", Vec("Championship"))>>
      \* types.rs 665-684
      [] T = "Organizer" ->
            <<Mandatory("organizer_id", One("String")),
              Mandatory("name", One("String")),
              Optional("avatar", One("String")),
              Optional("cover", One("String")),
              Optional("description", One("String")),
              Optional("faceit_url", One("String")),
              Optional("twitter", One("String")),
              Optional("youtube", One("String")),
              Optional("twitch", One("String")),
              Optional("facebook", One("String")),
              Optional("vk", One("String")),
              Optional("website", One("String")),
              Optional("followers_count", One("i64")),
              Optional("type", One("String"))>>
      \* types.rs 692-714
      [] T = "Team" ->
            <<Mandatory("team_id", One("String")),
              Mandatory("name", One("String")),
              Mandatory("nickname", One("String")),
              Optional("avatar", One("String")),
              Optional("cover_image", One("String")),
              Optional("description", One("String")),
              Optional("game", One("String")),
              Optional("leader", One("String")),
              Optional("members", Vec("UserSimple")),
              Optional("faceit_url", One("String")),
              Optional("chat_room_id", One("String")),
              Optional("twitter", One("String")),
              Optional("youtube", One("String")),
              Optional("facebook", One("String")),
              Optional("website", One("String")),
              Optional("team_type", One("String"))>>
      \* types.rs 718-731
      [] T = "UserSimple" ->
            <<Mandatory("user_id", One("String")),
              Mandatory("nickname", One("String")),
              Optional("avatar", One("String")),
              Optional("country", One("String")),
              Optional("faceit_url", One("String")),
              Optional("membership_type", One("String")),
              Optional("memberships", Vec("String")),
              Optional("skill_level", One("i64"))>>
      \* types.rs 735-742
      [] T = "TeamStats" ->
            <<Mandatory("team_id", One("String")),
              Mandatory("game_id", One("String")),
              Optional("lifetime", One("Value")),
              Optional("segments", Vec("Value"))>>
      \* types.rs 746-750
      [] T = "TeamList" ->
            <<Mandatory("start", One("i64")),
              Mandatory("end", One("i64")),
              Mandatory("items", Vec("Team"))>>
      \* types.rs 758-767
      [] T = "UserSearch" ->
            <<Mandatory("player_id", One("String")),
              Mandatory("nickname", One("String")),
              Optional("avatar", One("String")),
              Optional("country", One("String")),
              Optional("verified", One("bool")),
              Optional("status", One("String")),
              Optional("games", Vec("GameUserSearch"))>>
      \* types.rs 771-775
      [] T = "GameUserSearch" ->
            <<Mandatory("name", One("String")),
              Mandatory("skill_level", One("String"))>>
      \* types.rs 779-783
      [] T = "UsersSearchList" ->
            <<Mandatory("start", One("i64")),
              Mandatory("end", One("i64")),
              Mandatory("items", Vec("UserSearch"))>>
      \* types.rs 787-798
      [] T = "TeamSearch" ->
            <<Mandatory("team_id", One("String")),
              Mandatory("name", One("String")),
              Optional("avatar", One("String")),
              Optional("game", One("String")),
              Optional("faceit_url", One("String")),
              Optional("chat_room_id", One("String")),
              Optional("verified", One("bool"))>>
      \* types.rs 802-806
      [] T = "TeamsSearchList" ->
            <<Mandatory("start", One("i64")),
              Mandatory("end", One("i64")),
              Mandatory("items", Vec("TeamSearch"))>>
      \* types.rs 810-838
      [] T = "CompetitionSearch" ->
            <<Mandatory("competition_id", One("String")),
              Mandatory("competition_type", One("String")),
              Mandatory("name", One("String")),
              Optional("game", One("String")),
              Optional("region", One("String")),
              Mandatory("organizer_id", One("String")),
              Optional("organizer_name", One("String")),
              Optional("organizer_type", One("String")),
              Optional("status", One("String")),
              Optional("started_at", One("i64")),
              Optional("slots", One("i64")),
              Optional("number_of_members", One("i64")),
              Optional("players_joined", One("i64")),
              Optional("players_checkedin", One("i64")),
              Optional("prize_type", One("String")),
              Optional("total_prize", One("String"))>>
      \* types.rs 842-846
      [] T = "CompetitionsSearchList" ->
            <<Mandatory("start", One("i64")),
              Mandatory("end", One("i64")),
              Mandatory("items", Vec("CompetitionSearch"))>>
      \* types.rs 854-864
      [] T = "GlobalRanking" ->
            <<Mandatory("player_id", One("String")),
              Mandatory("nickname", One("String")),
              Mandatory("position", One("i64")),
              Mandatory("faceit_elo", One("i64")),
              Mandatory("game_skill_level", One("i64")),
              Optional("country", One("String"))>>
      \* types.rs 868-872
      [] T = "GlobalRankingList" ->
            <<Mandatory("start", One("i64")),
              Mandatory("end", One("i64")),
              Mandatory("items", Vec("GlobalRanking"))>>
      \* types.rs 876-881
      [] T = "PlayerGlobalRanking" ->
            <<Mandatory("position", One("i64")),
              Mandatory("start", One("i64")),
              Mandatory("end", One("i64")),
              Mandatory("items", Vec("GlobalRanking"))>>
      \* types.rs 889-954
      [] T = "Tournament" ->
            <<Mandatory("tournament_id", One("String")),
              Optional("competition_id", One("String")),
              Mandatory("name", One("String")),
              Optional("description", One("String")),
              Mandatory("game_id", One("String")),
              Optional("game_data", One("Game")),
              Mandatory("organizer_id", One("String")),
              Optional("organizer_data", One("Organizer")),
              Optional("region", One("String")),
              Mandatory("status", One("String")),
              Optional("started_at", One("i64")),
              Optional("faceit_url", One("String")),
              Optional("cover_image", One("String")),
              Optional("featured_image", One("String")),
              Optional("anticheat_required", One("bool")),
              Optional("calculate_elo", One("bool")),
              Optional("best_of", One("i64")),
              Optional("match_type", One("String")),
              Optional("invite_type", One("String")),
              Optional("membership_type", One("String")),
              Optional("min_skill", One("i64")),
              Optional("max_skill", One("i64")),
              Optional("number_of_players", One("i64")),
              Optional("number_of_players_joined", One("i64")),
              Optional("number_of_players_checkedin", One("i64")),
              Optional("number_of_players_participants", One("i64")),
              Optional("team_size", One("i64")),
              Optional("substitutes_allowed", One("i64")),
              Optional("substitutions_allowed", One("i64")),
              Optional("total_prize", One("String")),
              Optional("prize_type", One("String")),
              Optional("custom", One("bool")),
              Optional("rule", One("String")),
              Optional("rounds", Vec("Value")),
              Optional("voting", One("Value")),
              Optional("whitelist_countries", Vec("String"))>>
      \* types.rs 958-962
      [] T = "TournamentsList" ->
            <<Mandatory("start", One("i64")),
              Mandatory("end", One("i64")),
              Mandatory("items", Vec("TournamentSimple"))>>
      \* types.rs 970-983
      [] T = "Matchmaking" ->
            <<Mandatory("id", One("String")),
              Mandatory("name", One("String")),
              Mandatory("game", One("String")),
              Optional("region", One("String")),
              Optional("short_description", One("String")),
              Optional("long_description", One("String")),
              Optional("icon", One("String")),
              Optional("league_id", One("String")),
              Optional("queues", Vec("MatchmakingQueue"))>>
      \* types.rs 987-994
      [] T = "MatchmakingQueue" ->
            <<Mandatory("id", One("String")),
              Mandatory("name", One("String")),
              Optional("open", One("bool")),
              Optional("paused", One("bool")),
              Optional("organizer_id", One("String"))>>
      \* types.rs 998-1002
      [] T = "MatchmakingList" ->
            <<Mandatory("start", One("i64")),
              Mandatory("end", One("i64")),
              Mandatory("items", Vec("MatchmakingSlim"))>>
      \* types.rs 1006-1013
      [] T = "MatchmakingSlim" ->
            <<Mandatory("id", One("String")),
              Mandatory("name", One("String")),
              Mandatory("game", One("String")),
              Optional("region", One("String")),
              Optional("has_league", One("bool"))>>
      \* types.rs 1017-1064
      [] T = "TournamentSimple" ->
            <<Mandatory("tournament_id", One("String")),
              Mandatory("name", One("String")),
              Mandatory("game_id", One("String")),
              Optional("region", One("String")),
              Mandatory("status", One("String")),
              Optional("started_at", One("i64")),
              Optional("faceit_url", One("String")),
              Optional("featured_image", One("String")),
              Optional("anticheat_required", One("bool")),
              Optional("custom", One("bool")),
              Optional("match_type", One("String")),
              Optional("invite_type", One("String")),
              Optional("membership_type", One("String")),
              Optional("min_skill", One("i64")),
              Optional("max_skill", One("i64")),
              Optional("number_of_players", One("i64")),
              Optional("number_of_players_joined", One("i64")),
              Optional("number_of_players_checkedin", One("i64")),
              Optional("number_of_players_participants", One("i64")),
              Optional("team_size", One("i64")),
              Optional("total_prize", One("String")),
              Optional("prize_type", One("String")),
              Mandatory("organizer_id", One("String")),
              Optional("subscriptions_count", One("i64")),
              Optional("whitelist_countries", Vec("String"))>>

FieldNames == UNION {{Fields(T)[i].name : i \in 1..Len(Fields(T))} : T \in StructNames}

(***************************************************************************)
(* JSON texts.  A body is a sequence of lexemes; the JSON lexemes are the  *)
(* punctuation, the keywords, the quoted strings and the numbers.  Any     *)
(* other lexeme is not JSON.                                               *)
(***************************************************************************)
Quote(s) == "\"" \o s \o "\""

\* contents of the string literals the bodies of the model are made of
SampleStrings == {"p1", "foo", "x", "zzz", "2024-01-01T00:00:00Z"}

\* the samples that chrono parses as an RFC 3339 timestamp
DateTimeStrings == {"2024-01-01T00:00:00Z"}

JsonStrings == FieldNames \cup SampleStrings

StringLexemes == {Quote(s) : s \in JsonStrings}

Unquote(t) == CHOOSE s \in JsonStrings : Quote(s) = t

IntegerLexemes == {"0", "1", "20"}

NumberLexemes == IntegerLexemes \cup {"1.5"}

ParseOk(v, n) == [ok |-> TRUE, v |-> v, n |-> n, diag |-> <<>>]

ParseErr(d) == [ok |-> FALSE, v |-> <<>>, n |-> 0, diag |-> <<d>>]

\* what is wrong with the key and the colon of the member at lexeme i
MemberDiag(toks, i) ==
    IF i > Len(toks) THEN "EOF while parsing an object"
    ELSE IF toks[i] \notin StringLexemes THEN "key must be a string"
    ELSE IF i + 1 > Len(toks) THEN "EOF while parsing an object"
    ELSE IF toks[i + 1] # ":" THEN "expected ':'"
    ELSE ""

RECURSIVE ParseValue(_, _), ParseElements(_, _, _), ParseMembers(_, _, _)

\* the JSON value that starts at lexeme i, and the index after it
ParseValue(toks, i) ==
    IF i > Len(toks) THEN ParseErr("EOF while parsing a value")
    ELSE LET t == toks[i] IN
        IF t \in StringLexemes THEN ParseOk(<<"str", Unquote(t)>>, i + 1)
        ELSE IF t \in NumberLexemes THEN ParseOk(<<"num", t>>, i + 1)
        ELSE IF t = "null" THEN ParseOk(<<"null">>, i + 1)
        ELSE IF t \in {"true", "false"} THEN ParseOk(<<"bool", t>>, i + 1)
        ELSE IF t = "[" THEN
            IF i + 1 <= Len(toks) /\ toks[i + 1] = "]"
            THEN ParseOk(<<"arr", <<>>>>, i + 2)
            ELSE ParseElements(toks, i + 1, <<>>)
        ELSE IF t = "{" THEN
            IF i + 1 <= Len(toks) /\ toks[i + 1] = "}"
            THEN ParseOk(<<"obj", <<>>>>, i + 2)
            ELSE ParseMembers(toks, i + 1, <<>>)
        ELSE ParseErr("expected value")

\* the elements of an array from lexeme i on, acc the elements read so far
ParseElements(toks, i, acc) ==
    LET r == ParseValue(toks, i) IN
    IF ~r.ok THEN r
    ELSE IF r.n > Len(toks) THEN ParseErr("EOF while parsing a list")
    ELSE IF toks[r.n] = "," THEN ParseElements(toks, r.n + 1, Append(acc, r.v))
    ELSE IF toks[r.n] = "]" THEN ParseOk(<<"arr", Append(acc, r.v)>>, r.n + 1)
    ELSE ParseErr("expected ',' or ']'")

\* the members of an object from lexeme i on, acc the <<key, value>> pairs so far
ParseMembers(toks, i, acc) ==
    LET d == MemberDiag(toks, i)
        r == ParseValue(toks, i + 2)
    IN CASE d # "" -> ParseErr(d)
         [] d = "" /\ ~r.ok -> r
         [] d = "" /\ r.ok /\ r.n > Len(toks) -> ParseErr("EOF while parsing an object")
         [] d = "" /\ r.ok /\ r.n <= Len(toks) /\ toks[r.n] = "}" ->
               ParseOk(<<"obj", Append(acc, <<Unquote(toks[i]), r.v>>)>>, r.n + 1)
         [] d = "" /\ r.ok /\ r.n <= Len(toks) /\ toks[r.n] = "," ->
               ParseMembers(toks, r.n + 1, Append(acc, <<Unquote(toks[i]), r.v>>))
         [] OTHER -> ParseErr("expected ',' or '}'")

(***************************************************************************)
(* Deserialize, as derived by serde for the types above.                   *)
(***************************************************************************)
DecodeOk(val) == [ok |-> TRUE, val |-> val, diag |-> <<>>]

DecodeErr(d) == [ok |-> FALSE, val |-> <<>>, diag |-> d]

\* the indices of the members of an object that carry the key
KeyIndices(members, key) == {k \in 1..Len(members) : members[k][1] = key}

RECURSIVE DecodeAs(_, _), DecodeType(_, _), DecodeField(_, _), DecodeAll(_, _, _),
          DecodeStruct(_, _), DecodeFields(_, _, _, _), DecodeSeqFields(_, _, _, _)

\* a JSON value as the named type
DecodeAs(t, v) ==
    CASE t = "String" ->
            IF v[1] = "str" THEN DecodeOk(<<"String", v[2]>>)
            ELSE DecodeErr(<<"invalid type, expected a string">>)
      [] t = "i64" ->
            IF v[1] = "num" /\ v[2] \in IntegerLexemes THEN DecodeOk(<<"i64", v[2]>>)
            ELSE DecodeErr(<<"invalid type, expected i64">>)
      [] t = "f64" ->
            IF v[1] = "num" THEN DecodeOk(<<"f64", v[2]>>)
            ELSE DecodeErr(<<"invalid type, expected f64">>)
      [] t = "bool" ->
            IF v[1] = "bool" THEN DecodeOk(<<"bool", v[2]>>)
            ELSE DecodeErr(<<"invalid type, expected a boolean">>)
      [] t = "DateTime" ->
            IF v[1] # "str" THEN DecodeErr(<<"invalid type, expected a formatted date and time string">>)
            ELSE IF v[2] \in DateTimeStrings THEN DecodeOk(<<"DateTime", v[2]>>)
            ELSE DecodeErr(<<"input contains invalid characters">>)
      [] t = "Value" -> DecodeOk(<<"Value", v>>)
      [] OTHER -> DecodeStruct(t, v)

\* every value of a sequence of JSON values as the named type
DecodeAll(t, vs, acc) ==
    IF vs = <<>> THEN DecodeOk(acc)
    ELSE LET r == DecodeAs(t, Head(vs)) IN
         IF ~r.ok THEN r ELSE DecodeAll(t, Tail(vs), Append(acc, r.val))

\* a JSON value as T, Vec<T> or HashMap<String, T>
DecodeType(ty, v) ==
    CASE ty.c = "one" -> DecodeAs(ty.t, v)
      [] ty.c = "vec" ->
            IF v[1] # "arr" THEN DecodeErr(<<"invalid type, expected a sequence">>)
            ELSE LET r == DecodeAll(ty.t, v[2], <<>>) IN
                 IF r.ok THEN DecodeOk(<<"Vec", r.val>>) ELSE r
      [] ty.c = "map" ->
            IF v[1] # "obj" THEN DecodeErr(<<"invalid type, expected a map">>)
            ELSE LET ms == v[2]
                     \* a HashMap keeps the last value of a repeated key
                     last == {k \in 1..Len(ms) : \A j \in (k + 1)..Len(ms) : ms[j][1] # ms[k][1]}
                     r == DecodeAll(ty.t, [k \in 1..Len(ms) |-> ms[k][2]], <<>>) IN
                 IF r.ok THEN DecodeOk(<<"Map", {<<ms[k][1], r.val[k]>> : k \in last}>>) ELSE r

\* DecodeField with null refused for an Option
DecodeField_NullRefused(f, v) ==
    IF f.optional
    THEN IF v[1] = "null" THEN DecodeErr(<<"invalid type: null">>)
         ELSE LET r == DecodeType(f.ty, v) IN
              IF r.ok THEN DecodeOk(<<"Some", r.val>>) ELSE r
    ELSE DecodeType(f.ty, v)

\* DecodeField with an Option that takes a value of another type as None
DecodeField_LenientOption(f, v) ==
    IF f.optional
    THEN IF v[1] = "null" THEN DecodeOk(<<"None">>)
         ELSE LET r == DecodeType(f.ty, v) IN
              IF r.ok THEN DecodeOk(<<"Some", r.val>>) ELSE DecodeOk(<<"None">>)
    ELSE DecodeType(f.ty, v)

\* a JSON value as the type of a field; an Option takes null as None
DecodeField(f, v) ==
    IF f.optional
    THEN IF v[1] = "null" THEN DecodeOk(<<"None">>)
         ELSE LET r == DecodeType(f.ty, v) IN
              IF r.ok THEN DecodeOk(<<"Some", r.val>>) ELSE r
    ELSE DecodeType(f.ty, v)

\* DecodeFields with a default value in place of a mandatory field that is
\* missing, as under serde(default)
DecodeFields_DefaultsMissing(T, members, k, acc) ==
    IF k > Len(Fields(T)) THEN DecodeOk(<<"struct", T, acc>>)
    ELSE LET f == Fields(T)[k]
             at == KeyIndices(members, f.name) IN
         IF Cardinality(at) > 1
         THEN DecodeErr(<<"duplicate field '", f.name, "'">>)
         ELSE IF at = {}
         THEN DecodeFields(T, members, k + 1,
                           Append(acc, IF f.optional THEN <<"None">> ELSE <<"default">>))
         ELSE LET r == DecodeField(f, members[CHOOSE j \in at : TRUE][2]) IN
              IF ~r.ok THEN r
              ELSE DecodeFields(T, members, k + 1, Append(acc, r.val))

\* visit_map: the fields of T from k on, out of the members of an object
DecodeFields(T, members, k, acc) ==
    IF k > Len(Fields(T)) THEN DecodeOk(<<"struct", T, acc>>)
    ELSE LET f == Fields(T)[k]
             at == KeyIndices(members, f.name) IN
         IF Cardinality(at) > 1
         THEN DecodeErr(<<"duplicate field '", f.name, "'">>)
         ELSE IF at = {}
         THEN IF f.optional
              THEN DecodeFields(T, members, k + 1, Append(acc, <<"None">>))
              ELSE DecodeErr(<<"missing field '", f.name, "'">>)
         ELSE LET r == DecodeField(f, members[CHOOSE j \in at : TRUE][2]) IN
              IF ~r.ok THEN r
              ELSE DecodeFields(T, members, k + 1, Append(acc, r.val))

\* visit_seq: the fields of T from k on, by position in an array
DecodeSeqFields(T, elems, k, acc) ==
    IF k > Len(Fields(T))
    THEN IF Len(elems) > Len(Fields(T))
         THEN DecodeErr(<<"trailing characters">>)
         ELSE DecodeOk(<<"struct", T, acc>>)
    ELSE IF k > Len(elems) THEN DecodeErr(<<"invalid length">>)
    ELSE LET r == DecodeField(Fields(T)[k], elems[k]) IN
         IF ~r.ok THEN r
         ELSE DecodeSeqFields(T, elems, k + 1, Append(acc, r.val))

\* a JSON value as the struct T
DecodeStruct(T, v) ==
    CASE v[1] = "obj" -> DecodeFields(T, v[2], 1, <<>>)
      [] v[1] = "arr" -> DecodeSeqFields(T, v[2], 1, <<>>)
      [] OTHER -> DecodeErr(<<"invalid type, expected struct ", T>>)

\* serde_json::from_str::<T>: the whole text is one JSON value that decodes as T
from_str(T, text) ==
    LET p == ParseValue(text, 1) IN
    IF ~p.ok THEN DecodeErr(p.diag)
    ELSE IF p.n <= Len(text) THEN DecodeErr(<<"trailing characters">>)
    ELSE DecodeStruct(T, p.v)

(***************************************************************************)
(* Error (crate::error), as client.rs constructs its values, and the       *)
(* Result<T, Error> an operation returns.  One record shape:               *)
(* kind, and code/msg of Error::Api, value of Ok.                          *)
(***************************************************************************)
Ok(v) == [kind |-> "Ok", code |-> 0, msg |-> <<>>, value |-> v]

ErrorApi(code, msg) == [kind |-> "Api", code |-> code, msg |-> msg, value |-> <<>>]

ErrorInvalidApiKey == [kind |-> "InvalidApiKey", code |-> 0, msg |-> <<>>, value |-> <<>>]

ErrorServerError == [kind |-> "ServerError", code |-> 0, msg |-> <<>>, value |-> <<>>]

ErrorHttp == [kind |-> "Http", code |-> 0, msg |-> <<>>, value |-> <<>>]

ErrorJson == [kind |-> "Json", code |-> 0, msg |-> <<>>, value |-> <<>>]

\* the conversion the ? operator applies to a reqwest::Error
FromReqwestError == ErrorHttp

NoOutcome == [kind |-> "none", code |-> 0, msg |-> <<>>, value |-> <<>>]

(***************************************************************************)
(* Building the request                                                    *)
(***************************************************************************)
DEFAULT_BASE_URL == <<"https://open.faceit.com">>

\* seconds
DEFAULT_TIMEOUT == 30

\* QueryValue with the list's elements joined without those met before
QueryValue_Deduplicated(kind, v) ==
    CASE kind = "str" -> v.s
      [] kind = "i64" -> to_string(v.i)
      [] kind = "list" ->
            LET RECURSIVE Fresh1(_, _)
                Fresh1(l, k) ==
                    IF k > Len(l) THEN <<>>
                    ELSE (IF \E j \in 1..(k - 1) : l[j] = l[k] THEN <<>> ELSE <<l[k]>>)
                         \o Fresh1(l, k + 1)
            IN  Join(Fresh1(v.l, 1), <<",">>)

\* QueryValue with a number brought into the documented range 0..100
QueryValue_Clamped(kind, v) ==
    CASE kind = "str" -> v.s
      [] kind = "i64" -> to_string(IF v.i > 100 THEN 100 ELSE IF v.i < 0 THEN 0 ELSE v.i)
      [] kind = "list" -> Join(v.l, <<",">>)

\* the value of a path placeholder or a query parameter as it is sent
QueryValue(kind, v) ==
    CASE kind = "str" -> v.s
      [] kind = "i64" -> to_string(v.i)
      [] kind = "list" -> Join(v.l, <<",">>)

\* the placeholders of the URL templates, named after the arguments they take
PathParams ==
    {"{player_id}", "{game_id}", "{match_id}", "{hub_id}", "{championship_id}",
     "{region}"}

\* format!(template, self.base_url, ids...)
RECURSIVE FormatPath(_, _)
FormatPath(path, args) ==
    IF path = <<>> THEN <<>>
    ELSE (IF Head(path) \in PathParams THEN args[Head(path)].s ELSE <<Head(path)>>)
         \o FormatPath(Tail(path), args)

\* FormatUrl with the base URL and the identifiers tidied up: no "/" at the
\* end of the base URL, no empty identifier
FormatUrl_Normalised(base_url, path, args) ==
    (IF base_url = <<"https://x/">> THEN <<"https://x">> ELSE base_url)
        \o FormatPath(path, [x \in DOMAIN args |->
                                IF args[x].some /\ args[x].s = <<>>
                                THEN [args[x] EXCEPT !.s = <<"-">>] ELSE args[x]])

FormatUrl(base_url, path, args) == base_url \o FormatPath(path, args)

\* BuildQuery with a parameter whose argument is None sent with an empty value
RECURSIVE BuildQuery_EmptyForNone(_, _)
BuildQuery_EmptyForNone(params, args) ==
    IF params = <<>> THEN <<>>
    ELSE LET p == Head(params) IN
         (IF p.required \/ args[p.arg].some
          THEN << <<p.name, QueryValue(p.kind, args[p.arg])>> >>
          ELSE << <<p.name, <<>> >> >>)
         \o BuildQuery_EmptyForNone(Tail(params), args)

\* BuildQuery with the optional parameters put before the required ones
RECURSIVE BuildQuery_OptionalFirst(_, _)
BuildQuery_OptionalFirst(params, args) ==
    IF params = <<>> THEN <<>>
    ELSE LET p == Head(params) IN
         IF p.required
         THEN BuildQuery_OptionalFirst(Tail(params), args)
              \o << <<p.name, QueryValue(p.kind, args[p.arg])>> >>
         ELSE (IF args[p.arg].some
               THEN << <<p.name, QueryValue(p.kind, args[p.arg])>> >>
               ELSE <<>>)
              \o BuildQuery_OptionalFirst(Tail(params), args)

\* BuildQuery with a parameter left out when its value is empty
RECURSIVE BuildQuery_SkipsEmpty(_, _)
BuildQuery_SkipsEmpty(params, args) ==
    IF params = <<>> THEN <<>>
    ELSE LET p == Head(params) IN
         (IF (p.required \/ args[p.arg].some) /\ QueryValue(p.kind, args[p.arg]) # <<>>
          THEN << <<p.name, QueryValue(p.kind, args[p.arg])>> >>
          ELSE <<>>)
         \o BuildQuery_SkipsEmpty(Tail(params), args)

\* the request.query(&[(name, value)]) calls of an operation, in order:
\* unconditional for a required argument, under 'if let Some' for an Option
RECURSIVE BuildQuery(_, _)
BuildQuery(params, args) ==
    IF params = <<>> THEN <<>>
    ELSE LET p == Head(params) IN
         (IF p.required \/ args[p.arg].some
          THEN << <<p.name, QueryValue(p.kind, args[p.arg])>> >>
          ELSE <<>>)
         \o BuildQuery(Tail(params), args)

\* add_api_key_header sending the header of a client that has no key as well
add_api_key_header_Always(api_key, request) ==
    [request EXCEPT !.headers =
         Append(@, <<"Authorization", <<"Bearer ">> \o api_key.s>>)]

add_api_key_header(api_key, request) ==
    IF api_key.some
    THEN [request EXCEPT !.headers =
              Append(@, <<"Authorization", <<"Bearer ">> \o api_key.s>>)]
    ELSE request

\* the request an operation has built when it calls send()
BuildRequest(c, op, args) ==
    add_api_key_header(c.api_key,
        [method |-> "GET",
         url |-> FormatUrl(c.base_url, OpDef(op).path, args),
         query |-> BuildQuery(OpDef(op).params, args),
         headers |-> <<>>])

(***************************************************************************)
(* handle_response                                                         *)
(***************************************************************************)
\* is_success with the redirections counted as successes
is_success_to399(status) == 200 <= status /\ status <= 399

\* StatusCode::is_success
is_success(status) == 200 <= status /\ status <= 299

\* the match on the status code of a response that is not a success
ClassifyFailure(status_code, response_text) ==
    CASE status_code = 400 -> ErrorApi(status_code, <<"Bad request: ">> \o response_text)
      [] status_code = 401 -> ErrorInvalidApiKey
      [] status_code = 403 -> ErrorApi(status_code, <<"Forbidden: ">> \o response_text)
      [] status_code = 404 -> ErrorApi(status_code, <<"Not found: ">> \o response_text)
      [] status_code = 429 -> ErrorApi(status_code, <<"Too many requests: ">> \o response_text)
      [] status_code = 500 -> ErrorServerError
      [] status_code = 503 ->
            ErrorApi(status_code, <<"Service temporarily unavailable: ">> \o response_text)
      [] OTHER -> ErrorApi(status_code, response_text)

\* ClassifySuccess with an empty body taken for a success without content
ClassifySuccess_EmptyOk(status, response_text, T) ==
    LET r == from_str(T, response_text) IN
    IF r.ok \/ response_text = <<>> THEN Ok(r.val)
    ELSE ErrorApi(status,
             <<"Failed to parse JSON response: ">> \o r.diag
                 \o <<". Response body: ">> \o response_text)

\* ClassifySuccess with the raw body left out of the decode-failure message
ClassifySuccess_NoBody(status, response_text, T) ==
    LET r == from_str(T, response_text) IN
    IF r.ok THEN Ok(r.val)
    ELSE ErrorApi(status, <<"Failed to parse JSON response: ">> \o r.diag)

\* the match on the result of serde_json::from_str::<T>
ClassifySuccess(status, response_text, T) ==
    LET r == from_str(T, response_text) IN
    IF r.ok THEN Ok(r.val)
    ELSE ErrorApi(status,
             <<"Failed to parse JSON response: ">> \o r.diag
                 \o <<". Response body: ">> \o response_text)

\* Classify without the 404 arm of the match
Classify_404Unlabelled(status, response_text, T) ==
    IF ~is_success(status)
    THEN IF status = 404 THEN ErrorApi(status, response_text)
         ELSE ClassifyFailure(status, response_text)
    ELSE ClassifySuccess(status, response_text, T)

\* Classify without the 401 arm of the match
Classify_401Generic(status, response_text, T) ==
    IF ~is_success(status)
    THEN IF status = 401 THEN ErrorApi(status, response_text)
         ELSE ClassifyFailure(status, response_text)
    ELSE ClassifySuccess(status, response_text, T)

\* Classify without the 500 arm of the match
Classify_500Generic(status, response_text, T) ==
    IF ~is_success(status)
    THEN IF status = 500 THEN ErrorApi(status, response_text)
         ELSE ClassifyFailure(status, response_text)
    ELSE ClassifySuccess(status, response_text, T)

\* Classify with the decoding tried before the status is tested
Classify_DecodeFirst(status, response_text, T) ==
    LET r == from_str(T, response_text) IN
    IF r.ok THEN Ok(r.val)
    ELSE IF ~is_success(status)
    THEN ClassifyFailure(status, response_text)
    ELSE ClassifySuccess(status, response_text, T)

\* handle_response once status and response_text are bound
Classify(status, response_text, T) ==
    IF ~is_success(status)
    THEN ClassifyFailure(status, response_text)
    ELSE ClassifySuccess(status, response_text, T)

(***************************************************************************)
(* The inputs: arguments of the calls, and what the server answers.        *)
(***************************************************************************)
\* the arguments an operation is called with: one value per path placeholder
\* and per parameter, None or Some for an Option
ArgValues(p) ==
    (IF p.required THEN {} ELSE {None})
    \cup (CASE p.kind = "str" -> {SomeStr(<<"cs2">>)}
            [] p.kind = "i64" -> {SomeInt(20)}
            [] p.kind = "list" -> {SomeList(<< <<"organizer">>, <<"game">> >>)})

PathArgs(op) == {OpDef(op).path[k] : k \in 1..Len(OpDef(op).path)} \cap PathParams

ParamAt(op, a) ==
    OpDef(op).params[CHOOSE k \in 1..Len(OpDef(op).params) : OpDef(op).params[k].arg = a]

QueryArgs(op) == {OpDef(op).params[k].arg : k \in 1..Len(OpDef(op).params)}

ArgSpace(op) ==
    {a \in [PathArgs(op) \cup QueryArgs(op) ->
                {None, SomeStr(<<"cs2">>), SomeStr(<<"p1">>), SomeInt(20),
                 SomeList(<< <<"organizer">>, <<"game">> >>)}] :
        /\ \A x \in PathArgs(op) : a[x] = SomeStr(<<"p1">>)
        /\ \A x \in QueryArgs(op) : a[x] \in ArgValues(ParamAt(op, x))}

\* the status codes a response carries
Statuses == {199, 200, 204, 299, 300, 302, 400, 401, 403, 404, 418, 429, 500, 502, 503}

\* the lexemes of a JSON value the type accepts
SampleValue(ty) ==
    CASE ty.c = "vec" -> <<"[", "]">>
      [] ty.c = "map" -> <<"{", "}">>
      [] ty.t = "String" -> <<Quote("x")>>
      [] ty.t = "i64" -> <<"0">>
      [] ty.t = "f64" -> <<"1.5">>
      [] ty.t = "bool" -> <<"true">>
      [] ty.t = "DateTime" -> <<Quote("2024-01-01T00:00:00Z")>>
      [] OTHER -> <<"null">>

RECURSIVE SampleMembers(_, _, _)
SampleMembers(fields, k, first) ==
    IF k > Len(fields) THEN <<>>
    ELSE IF fields[k].optional THEN SampleMembers(fields, k + 1, first)
    ELSE (IF first THEN <<>> ELSE <<",">>)
         \o <<Quote(fields[k].name), ":">> \o SampleValue(fields[k].ty)
         \o SampleMembers(fields, k + 1, FALSE)

\* a JSON object with exactly the mandatory fields of T
MinimalBody(T) == <<"{">> \o SampleMembers(Fields(T), 1, TRUE) \o <<"}">>

\* {"player_id":"p1","nickname":"foo"}
PlayerFixture ==
    <<"{", Quote("player_id"), ":", Quote("p1"), ",", Quote("nickname"), ":",
      Quote("foo"), "}">>

\* the bodies a response to an operation with result type T carries
Bodies(T) ==
    {<<>>, <<"not found">>, <<"{">>, <<"{", "}">>, PlayerFixture, MinimalBody(T)}

\* the lexemes of a JSON value the type rejects
WrongValue(ty) ==
    IF ty.c = "one" /\ ty.t \in {"i64", "f64", "bool"} THEN <<Quote("x")>> ELSE <<"0">>

\* the members of the mandatory fields from k on, without the field drop and
\* with a value of the wrong type for the field wrong
RECURSIVE BodyMembers(_, _, _, _, _)
BodyMembers(fields, k, first, drop, wrong) ==
    IF k > Len(fields) THEN <<>>
    ELSE IF fields[k].optional \/ k = drop
    THEN BodyMembers(fields, k + 1, first, drop, wrong)
    ELSE (IF first THEN <<>> ELSE <<",">>)
         \o <<Quote(fields[k].name), ":">>
         \o (IF k = wrong THEN WrongValue(fields[k].ty) ELSE SampleValue(fields[k].ty))
         \o BodyMembers(fields, k + 1, FALSE, drop, wrong)

MandatoryIndices(T) == {k \in 1..Len(Fields(T)) : ~Fields(T)[k].optional}

\* MinimalBody(T) without its mandatory field k
WithoutField(T, k) == <<"{">> \o BodyMembers(Fields(T), 1, TRUE, k, 0) \o <<"}">>

\* MinimalBody(T) with a value of another type for its mandatory field k
WrongType(T, k) == <<"{">> \o BodyMembers(Fields(T), 1, TRUE, 0, k) \o <<"}">>

\* MinimalBody(T) with one more member at its end
WithMember(T, name, value) ==
    <<"{">> \o SampleMembers(Fields(T), 1, TRUE)
        \o (IF MandatoryIndices(T) = {} THEN <<>> ELSE <<",">>)
        \o <<Quote(name), ":">> \o value \o <<"}">>

\* MinimalBody(T) with an optional field given as null, as a value of its
\* type and as a value of another type, and with a field T does not declare
OptionalBodies(T) ==
    UNION {{WithMember(T, Fields(T)[k].name, v) :
               v \in {<<"null">>, SampleValue(Fields(T)[k].ty), WrongValue(Fields(T)[k].ty)}} :
           k \in {k \in 1..Len(Fields(T)) : Fields(T)[k].optional}}
    \cup {WithMember(T, "zzz", <<"0">>)}

\* the bodies that try the decoding of T field by field
DecodeBodies(T) ==
    {MinimalBody(T), PlayerFixture}
    \cup {WithoutField(T, k) : k \in MandatoryIndices(T)}
    \cup {WrongType(T, k) : k \in MandatoryIndices(T)}
    \cup OptionalBodies(T)

ResultTypes == {OpDef(op).result : op \in Ops}

(***************************************************************************)
(* The state:                                                              *)
(*   client   the built Client                                             *)
(*   call     the operation the executor is running on it                  *)
(*   builder  the ClientBuilder the client was built from                  *)
(*   handle   the ergonomic wrapper that borrows the client, if any        *)
(*   parked   the operations of other tasks, suspended at an await         *)
(* The fields of an operation:                                             *)
(*   pc        where the operation is: "idle", "sending" (awaiting         *)
(*             request.send()), "handle" (in handle_response, status       *)
(*             bound, awaiting response.text()), "classify" (response_text *)
(*             bound, before the status is tested), "done" (returned)      *)
(*   sends     requests handed to the transport by this call               *)
(*   send_failed  request.send() returned a transport error                *)
(*   reads     times the response body was consumed by this call           *)
(*   entered   handle_response was entered                                 *)
(*   branched  the status was tested                                       *)
(*   decoded   serde_json::from_str was called                             *)
(*   via       the wrapper method the operation was called through         *)
(***************************************************************************)
NoRequest == [method |-> "", url |-> <<>>, query |-> <<>>, headers |-> <<>>]

Idle ==
    [pc |-> "idle", op |-> "", args |-> <<>>, request |-> NoRequest, T |-> "",
     status |-> 0, response_text |-> <<>>, outcome |-> NoOutcome,
     sends |-> 0, send_failed |-> FALSE, reads |-> 0, entered |-> FALSE,
     branched |-> FALSE, decoded |-> FALSE, via |-> "", wargs |-> <<>>]

\* the clients ClientBuilder::build() yields here: default base URL, with or
\* without an api key
Clients ==
    {[base_url |-> DEFAULT_BASE_URL, api_key |-> k,
      reqwest_client |-> [timeout |-> DEFAULT_TIMEOUT]] :
        k \in {None, SomeStr(<<"test-key">>)}}

\* the ClientBuilder a client was built from
BuilderOf(c) ==
    [stage |-> "built", base_url |-> None, api_key |-> c.api_key,
     timeout |-> SomeInt(DEFAULT_TIMEOUT),
     client_builder |-> [timeout |-> None, builds |-> TRUE]]

NoHandle == [kind |-> "", id |-> <<>>]

\* no value of types.rs is being serialized
NoDto ==
    [pc |-> "none", T |-> "", value |-> <<>>, decoded |-> FALSE, text |-> <<>>,
     back |-> DecodeErr(<<>>)]

Init ==
    /\ client \in Clients
    /\ call = Idle
    /\ builder = BuilderOf(client)
    /\ handle = NoHandle
    /\ parked = <<>>
    /\ dto = NoDto

\* an operation up to its request.send(): build the URL, add the query
\* parameters and the Authorization header, hand the request to the transport
Call(op, args) ==
    /\ builder.stage = "built"
    /\ call.pc = "idle"
    /\ call' = [Idle EXCEPT !.pc = "sending", !.op = op, !.args = args,
                            !.T = OpDef(op).result,
                            !.request = BuildRequest(client, op, args),
                            !.sends = 1]
    /\ UNCHANGED <<client, builder, handle, parked, dto>>

\* SendFails with the request sent a second time after a first failure
SendFails_Retry ==
    /\ call.pc = "sending"
    /\ call' = IF call.sends < 2
               THEN [call EXCEPT !.sends = @ + 1]
               ELSE [call EXCEPT !.pc = "done", !.send_failed = TRUE,
                                 !.outcome = FromReqwestError]
    /\ UNCHANGED <<client, builder, handle, parked, dto>>

\* request.send().await? with a transport error: the operation returns it
SendFails ==
    /\ call.pc = "sending"
    /\ call' = [call EXCEPT !.pc = "done", !.send_failed = TRUE,
                            !.outcome = FromReqwestError]
    /\ UNCHANGED <<client, builder, handle, parked, dto>>

\* SendCompletes with the statuses that attach no body classified unread
SendCompletes_SkipRead(status) ==
    /\ call.pc = "sending"
    /\ call' = [call EXCEPT !.pc = IF status \in {401, 500} THEN "classify" ELSE "handle",
                            !.entered = TRUE, !.status = status]
    /\ UNCHANGED <<client, builder, handle, parked, dto>>

\* request.send().await? with a response: handle_response(response) is
\* entered and binds status
SendCompletes(status) ==
    /\ call.pc = "sending"
    /\ call' = [call EXCEPT !.pc = "handle", !.entered = TRUE, !.status = status]
    /\ UNCHANGED <<client, builder, handle, parked, dto>>

\* response.text().await? reads the whole body and binds response_text to it
ReadText(body) ==
    /\ call.pc = "handle"
    /\ call' = [call EXCEPT !.pc = "classify", !.reads = @ + 1,
                            !.response_text = body]
    /\ UNCHANGED <<client, builder, handle, parked, dto>>

\* ReadTextFails with the status classified as if the body were empty
ReadTextFails_Classified ==
    /\ call.pc = "handle"
    /\ call' = [call EXCEPT !.pc = "done", !.reads = @ + 1,
                            !.outcome = Classify(call.status, <<>>, call.T)]
    /\ UNCHANGED <<client, builder, handle, parked, dto>>

\* response.text().await? fails: handle_response returns the transport error
ReadTextFails ==
    /\ call.pc = "handle"
    /\ call' = [call EXCEPT !.pc = "done", !.reads = @ + 1,
                            !.outcome = FromReqwestError]
    /\ UNCHANGED <<client, builder, handle, parked, dto>>

\* Respond with the request sent once more after a 429, a 5xx or a body that
\* does not decode
Respond_Retries ==
    /\ call.pc = "classify"
    /\ LET outcome == Classify(call.status, call.response_text, call.T) IN
       call' = IF call.sends < 2 /\ outcome.kind # "Ok"
                    /\ (call.status = 429 \/ call.status >= 500 \/ is_success(call.status))
               THEN [call EXCEPT !.pc = "sending", !.sends = @ + 1]
               ELSE [call EXCEPT !.pc = "done", !.branched = TRUE,
                                 !.decoded = is_success(call.status),
                                 !.outcome = outcome]
    /\ UNCHANGED <<client, builder, handle, parked, dto>>

\* Respond with one response buffer for all the calls in flight: the status
\* and the text are those of the call that was answered last
Respond_SharedResponse ==
    /\ call.pc = "classify"
    /\ LET other == Len(parked) > 0 /\ parked[1].pc \in {"classify", "done"}
           status == IF other THEN parked[1].status ELSE call.status
           text == IF other THEN parked[1].response_text ELSE call.response_text
       IN call' = [call EXCEPT !.pc = "done", !.branched = TRUE,
                               !.decoded = is_success(status),
                               !.outcome = Classify(status, text, call.T)]
    /\ UNCHANGED <<client, builder, handle, parked, dto>>

\* Respond with the credential dropped once the server rejected it
Respond_ForgetsKey ==
    /\ call.pc = "classify"
    /\ call' = [call EXCEPT !.pc = "done", !.branched = TRUE,
                            !.decoded = is_success(call.status),
                            !.outcome = Classify(call.status, call.response_text, call.T)]
    /\ client' = IF call.status = 401 THEN [client EXCEPT !.api_key = None] ELSE client
    /\ UNCHANGED <<builder, handle, parked, dto>>

\* the rest of handle_response: test the status, decode a success
Respond ==
    /\ call.pc = "classify"
    /\ call' = [call EXCEPT !.pc = "done", !.branched = TRUE,
                            !.decoded = is_success(call.status),
                            !.outcome = Classify(call.status, call.response_text, call.T)]
    /\ UNCHANGED <<client, builder, handle, parked, dto>>

\* the caller has the result; the client is free for the next call
Return ==
    /\ call.pc = "done"
    /\ call' = Idle
    /\ UNCHANGED <<client, builder, handle, parked, dto>>

Next ==
    \/ \E op \in Ops : \E args \in ArgSpace(op) : Call(op, args)
    \/ SendFails
    \/ \E status \in Statuses : SendCompletes(status)
    \/ call.pc = "handle" /\ \E body \in Bodies(call.T) : ReadText(body)
    \/ ReadTextFails
    \/ Respond
    \/ Return

Spec == Init /\ [][Next]_vars

(***************************************************************************)
(* The same operations called with numbers of every size: negative, zero,  *)
(* above the documented maxima, the extremes TLC can represent.            *)
(***************************************************************************)
IntSamples == {-2147483647, -1, 0, 20, 101, 1000000, 2147483647}

\* the lists given for expanded: empty, of one element, in two orders, and
\* with an element twice
ListSamples ==
    {<<>>, << <<"game">> >>, << <<"organizer">>, <<"game">> >>,
     << <<"game">>, <<"organizer">> >>, << <<"game">>, <<"organizer">>, <<"game">> >>}

WideArgValues(p) ==
    (IF p.required THEN {} ELSE {None})
    \cup (CASE p.kind = "str" -> {SomeStr(<<"cs2">>)}
                                    \cup (IF p.required THEN {} ELSE {SomeStr(<<>>)})
            [] p.kind = "i64" -> {SomeInt(n) : n \in IntSamples}
            [] p.kind = "list" -> {SomeList(l) : l \in ListSamples})

\* the functions that give each argument of a set one of its values
RECURSIVE WideArgFuns(_, _)
WideArgFuns(op, names) ==
    IF names = {} THEN {<<>>}
    ELSE LET x == CHOOSE x \in names : TRUE
             vals == IF x \in PathParams THEN {SomeStr(<<"p1">>)}
                     ELSE WideArgValues(ParamAt(op, x))
         IN  {(x :> v) @@ rest : v \in vals, rest \in WideArgFuns(op, names \ {x})}

WideArgSpace(op) == WideArgFuns(op, PathArgs(op) \cup QueryArgs(op))

WideStatuses == {200, 400}

WideBodies == {<<"not found">>}

InitWide ==
    /\ client = [base_url |-> DEFAULT_BASE_URL, api_key |-> SomeStr(<<"test-key">>),
                 reqwest_client |-> [timeout |-> DEFAULT_TIMEOUT]]
    /\ call = Idle
    /\ builder = BuilderOf(client)
    /\ handle = NoHandle
    /\ parked = <<>>
    /\ dto = NoDto

NextWide ==
    \/ call.pc = "idle" /\ \E op \in Ops : \E args \in WideArgSpace(op) : Call(op, args)
    \/ SendFails
    \/ \E status \in WideStatuses : SendCompletes(status)
    \/ \E body \in WideBodies : ReadText(body)
    \/ ReadTextFails
    \/ Respond
    \/ Return

SpecWide == InitWide /\ [][NextWide]_vars

(***************************************************************************)
(* The same operations, called without optional arguments and answered     *)
(* with the bodies that try the decoding.                                  *)
(***************************************************************************)
PlainArgSpace(op) ==
    {a \in ArgSpace(op) : \A x \in QueryArgs(op) : ~ParamAt(op, x).required => a[x] = None}

DecodeStatuses == {200, 204, 404}

NextDecode ==
    \/ call.pc = "idle" /\ \E op \in Ops : \E args \in PlainArgSpace(op) : Call(op, args)
    \/ SendFails
    \/ \E status \in DecodeStatuses : SendCompletes(status)
    \/ call.pc = "handle" /\ \E body \in DecodeBodies(call.T) : ReadText(body)
    \/ ReadTextFails
    \/ Respond
    \/ Return

SpecDecode == Init /\ [][NextDecode]_vars

(***************************************************************************)
(* The ergonomic wrappers: a handle holds an identifier and a reference to *)
(* the client; each method forwards to one operation of the client.        *)
(***************************************************************************)
\* one method of a wrapper: the operation it calls on self.client and the
\* expressions it passes, in the order of the call
Wrapper(kind, method, op, passes) ==
    [kind |-> kind, name |-> method, op |-> op, passes |-> passes]

PlayerWrappers ==
    {Wrapper("Player", "Player::get", "get_player", <<"self.player_id">>),
     Wrapper("Player", "Player::stats", "get_player_stats", <<"self.player_id", "game_id">>),
     Wrapper("Player", "Player::history", "get_player_history",
             <<"self.player_id", "game", "from", "to", "offset", "limit">>),
     Wrapper("Player", "Player::bans", "get_player_bans",
             <<"self.player_id", "offset", "limit">>),
     Wrapper("Player", "Player::hubs", "get_player_hubs",
             <<"self.player_id", "offset", "limit">>),
     Wrapper("Player", "Player::teams", "get_player_teams",
             <<"self.player_id", "offset", "limit">>),
     Wrapper("Player", "Player::tournaments", "get_player_tournaments",
             <<"self.player_id", "offset", "limit">>)}

MatchWrappers ==
    {Wrapper("Match", "Match::get", "get_match", <<"self.match_id">>),
     Wrapper("Match", "Match::stats", "get_match_stats", <<"self.match_id">>)}

GameWrappers ==
    {Wrapper("Game", "Game::get", "get_game", <<"self.game_id">>),
     Wrapper("Game", "Game::parent", "get_parent_game", <<"self.game_id">>),
     Wrapper("Game", "Game::matchmakings", "get_game_matchmakings",
             <<"self.game_id", "region", "offset", "limit">>)}

HubWrappers ==
    {Wrapper("Hub", "Hub::get", "get_hub", <<"self.hub_id", "expanded">>),
     Wrapper("Hub", "Hub::matches", "get_hub_matches",
             <<"self.hub_id", "match_type", "offset", "limit">>),
     Wrapper("Hub", "Hub::members", "get_hub_members", <<"self.hub_id", "offset", "limit">>),
     Wrapper("Hub", "Hub::stats", "get_hub_stats", <<"self.hub_id", "offset", "limit">>)}

ChampionshipWrappers ==
    {Wrapper("Championship", "Championship::get", "get_championship",
             <<"self.championship_id", "expanded">>),
     Wrapper("Championship", "Championship::matches", "get_championship_matches",
             <<"self.championship_id", "match_type", "offset", "limit">>)}

Wrappers ==
    PlayerWrappers \cup MatchWrappers \cup GameWrappers \cup HubWrappers
        \cup ChampionshipWrappers

\* the field of a wrapper that holds the identifier
SelfId(kind) ==
    CASE kind = "Player" -> "self.player_id"
      [] kind = "Match" -> "self.match_id"
      [] kind = "Game" -> "self.game_id"
      [] kind = "Hub" -> "self.hub_id"
      [] kind = "Championship" -> "self.championship_id"

\* X::new(id, client)
NewWrapper(kind, x_id) == [kind |-> kind, id |-> x_id]

\* X::id(&self)
id(h) == h.id

IsPathParam(s) == s \in PathParams

\* the arguments of an operation of the client in the order of its signature:
\* the path parameters, then the query parameters
Signature(op) ==
    SelectSeq(OpDef(op).path, IsPathParam)
        \o [k \in 1..Len(OpDef(op).params) |-> OpDef(op).params[k].arg]

\* the parameters of a wrapper method
WrapperParams(w) == {w.passes[k] : k \in 1..Len(w.passes)} \ {SelfId(w.kind)}

\* Forward with offset and limit passed in each other's place
Forward_SwapsPaging(w, h, wargs) ==
    [x \in {Signature(w.op)[k] : k \in 1..Len(w.passes)} |->
        LET e == w.passes[CHOOSE k \in 1..Len(w.passes) : Signature(w.op)[k] = x] IN
        IF e = SelfId(w.kind) THEN SomeStr(h.id)
        ELSE IF e = "offset" THEN wargs["limit"]
        ELSE IF e = "limit" THEN wargs["offset"]
        ELSE wargs[e]]

\* the arguments the operation of the client receives from the method w of
\* the handle h called with wargs
Forward(w, h, wargs) ==
    [x \in {Signature(w.op)[k] : k \in 1..Len(w.passes)} |->
        LET e == w.passes[CHOOSE k \in 1..Len(w.passes) : Signature(w.op)[k] = x] IN
        IF e = SelfId(w.kind) THEN SomeStr(h.id) ELSE wargs[e]]

\* the arguments a wrapper method is called with
WrapperArgSpace(w) ==
    {[p \in WrapperParams(w) |->
         a[Signature(w.op)[CHOOSE k \in 1..Len(w.passes) : w.passes[k] = p]]] :
             a \in ArgSpace(w.op)}

WrapperKinds == {"Player", "Match", "Game", "Hub", "Championship"}

\* the identifiers handles are made for
HandleIds == {<<"p1">>, <<"h-42">>}

ErgonomicStatuses == {200, 404, 500}

\* X::new(id, &client)
NewHandle(kind, x_id) ==
    /\ builder.stage = "built"
    /\ call.pc = "idle"
    /\ handle' = NewWrapper(kind, x_id)
    /\ UNCHANGED <<client, call, builder, parked, dto>>

\* a method of the handle is called: it calls the operation on self.client
WrapperCall(w, wargs) ==
    /\ call.pc = "idle"
    /\ handle.kind = w.kind
    /\ LET args == Forward(w, handle, wargs) IN
       call' = [Idle EXCEPT !.pc = "sending", !.op = w.op, !.args = args,
                            !.T = OpDef(w.op).result,
                            !.request = BuildRequest(client, w.op, args), !.sends = 1,
                            !.via = w.name, !.wargs = wargs]
    /\ UNCHANGED <<client, builder, handle, parked, dto>>

NextErgonomic ==
    \/ \E kind \in WrapperKinds : \E x_id \in HandleIds : NewHandle(kind, x_id)
    \/ /\ call.pc = "idle"
       /\ \E w \in Wrappers : handle.kind = w.kind /\ \E wargs \in WrapperArgSpace(w) :
             WrapperCall(w, wargs)
    \/ SendFails
    \/ \E status \in ErgonomicStatuses : SendCompletes(status)
    \/ call.pc = "handle" /\ \E body \in Bodies(call.T) : ReadText(body)
    \/ ReadTextFails
    \/ Respond
    \/ Return

SpecErgonomic == Init /\ [][NextErgonomic]_vars

(***************************************************************************)
(* The builder: the settings are made on a ClientBuilder, build() makes    *)
(* the Client out of them, and the calls follow.                           *)
(***************************************************************************)
\* ClientBuilder::new(); client_builder is reqwest::Client::builder(): its
\* timeout, and whether reqwest can build its client out of it
ClientBuilder_new ==
    [stage |-> "new", base_url |-> None, api_key |-> None,
     timeout |-> SomeInt(DEFAULT_TIMEOUT),
     client_builder |-> [timeout |-> None, builds |-> TRUE]]

\* no Client is built yet
NoClient == [base_url |-> <<>>, api_key |-> None, reqwest_client |-> [timeout |-> 0]]

\* build with the base URL of the builder left aside
build_DefaultBaseUrl(b) ==
    [base_url |-> DEFAULT_BASE_URL,
     api_key |-> b.api_key,
     reqwest_client |-> [timeout |-> IF b.timeout.some THEN b.timeout.i
                                     ELSE DEFAULT_TIMEOUT]]

\* build without its own .timeout(..): the timeout of the reqwest builder stays
build_ReqwestTimeout(b) ==
    [base_url |-> IF b.base_url.some THEN b.base_url.s ELSE DEFAULT_BASE_URL,
     api_key |-> b.api_key,
     reqwest_client |-> [timeout |-> IF b.client_builder.timeout.some
                                     THEN b.client_builder.timeout.i
                                     ELSE DEFAULT_TIMEOUT]]

\* the Client of ClientBuilder::build
build(b) ==
    [base_url |-> IF b.base_url.some THEN b.base_url.s ELSE DEFAULT_BASE_URL,
     api_key |-> b.api_key,
     reqwest_client |-> [timeout |-> IF b.timeout.some THEN b.timeout.i
                                     ELSE DEFAULT_TIMEOUT]]

\* Client::base_url(&self)
Client_base_url(c) == c.base_url

\* Client::api_key(&self)
Client_api_key(c) == c.api_key

BaseUrls == {<<"https://custom.api.com">>, <<"https://x/">>}

ApiKeys == {<<"test-key">>, <<"k2">>}

\* seconds
Timeouts == {60, 90}

\* the reqwest builders handed to client_builder(): with a timeout of their
\* own or none, and that reqwest can build or not
ReqwestBuilders == {[timeout |-> t, builds |-> b] : t \in {None, SomeInt(5)}, b \in BOOLEAN}

\* the identifiers the calls are made with
PathIds == {<<>>, <<"a/b?c">>, <<"p1">>}

VerbatimArgSpace(op) ==
    {[x \in PathArgs(op) \cup QueryArgs(op) |->
         IF x \in PathArgs(op) THEN ids[x]
         ELSE IF ParamAt(op, x).required THEN SomeStr(<<"cs2">>) ELSE None] :
        ids \in [PathArgs(op) -> {SomeStr(y) : y \in PathIds}]}

BuilderStatuses == {200, 401}

BuilderBodies == {<<"not found">>, PlayerFixture}

\* base_url() made as a builder that starts over with the URL
ClientBuilder_base_url_StartsOver(url) ==
    /\ builder.stage = "new"
    /\ builder' = [ClientBuilder_new EXCEPT !.base_url = SomeStr(url),
                                            !.client_builder = builder.client_builder]
    /\ UNCHANGED <<client, call, handle, parked, dto>>

ClientBuilder_base_url(url) ==
    /\ builder.stage = "new"
    /\ builder' = [builder EXCEPT !.base_url = SomeStr(url)]
    /\ UNCHANGED <<client, call, handle, parked, dto>>

ClientBuilder_api_key(key) ==
    /\ builder.stage = "new"
    /\ builder' = [builder EXCEPT !.api_key = SomeStr(key)]
    /\ UNCHANGED <<client, call, handle, parked, dto>>

ClientBuilder_timeout(t) ==
    /\ builder.stage = "new"
    /\ builder' = [builder EXCEPT !.timeout = SomeInt(t),
                                  !.client_builder = [@ EXCEPT !.timeout = SomeInt(t)]]
    /\ UNCHANGED <<client, call, handle, parked, dto>>

ClientBuilder_client_builder(b) ==
    /\ builder.stage = "new"
    /\ builder' = [builder EXCEPT !.client_builder = b]
    /\ UNCHANGED <<client, call, handle, parked, dto>>

\* build() returns Ok(Client)
ClientBuilder_build ==
    /\ builder.stage = "new"
    /\ builder.client_builder.builds
    /\ client' = build(builder)
    /\ builder' = [builder EXCEPT !.stage = "built"]
    /\ UNCHANGED <<call, handle, parked, dto>>

\* build() with unwrap() in the place of map_err(Error::Http)?
ClientBuilder_build_Unwraps ==
    /\ builder.stage = "new"
    /\ ~builder.client_builder.builds
    /\ builder' = [builder EXCEPT !.stage = "panicked"]
    /\ UNCHANGED <<client, call, handle, parked, dto>>

\* build() returns Err(Error::Http): reqwest could not make its client
ClientBuilder_build_Err ==
    /\ builder.stage = "new"
    /\ ~builder.client_builder.builds
    /\ builder' = [builder EXCEPT !.stage = "failed"]
    /\ UNCHANGED <<client, call, handle, parked, dto>>

\* the builder is as ClientBuilder::new() made it
Fresh(b) == [b EXCEPT !.stage = "new", !.client_builder.builds = TRUE] = ClientBuilder_new

\* Client::new(): ClientBuilder::new().build().expect(..), the Client or a panic
Client_new ==
    /\ builder.stage = "new"
    /\ Fresh(builder)
    /\ IF builder.client_builder.builds
       THEN /\ client' = build(builder)
            /\ builder' = [builder EXCEPT !.stage = "built"]
       ELSE /\ client' = client
            /\ builder' = [builder EXCEPT !.stage = "panicked"]
    /\ UNCHANGED <<call, handle, parked, dto>>

InitBuilder ==
    /\ client = NoClient
    /\ call = Idle
    /\ \E b \in BOOLEAN : builder = [ClientBuilder_new EXCEPT !.client_builder.builds = b]
    /\ handle = NoHandle
    /\ parked = <<>>
    /\ dto = NoDto

NextBuilder ==
    \/ \E url \in BaseUrls : ClientBuilder_base_url(url)
    \/ \E key \in ApiKeys : ClientBuilder_api_key(key)
    \/ \E t \in Timeouts : ClientBuilder_timeout(t)
    \/ \E b \in ReqwestBuilders : ClientBuilder_client_builder(b)
    \/ ClientBuilder_build
    \/ ClientBuilder_build_Err
    \/ Client_new
    \/ /\ call.pc = "idle"
       /\ builder.stage = "built"
       /\ \E op \in Ops : \E args \in VerbatimArgSpace(op) : Call(op, args)
    \/ SendFails
    \/ \E status \in BuilderStatuses : SendCompletes(status)
    \/ \E body \in BuilderBodies : ReadText(body)
    \/ ReadTextFails
    \/ Respond
    \/ Return

SpecBuilder == InitBuilder /\ [][NextBuilder]_vars

(***************************************************************************)
(* Several calls in flight on one client: each is a task of the caller's   *)
(* runtime, suspended at its .await points; call is the task that runs,    *)
(* parked holds the suspended ones.                                        *)
(***************************************************************************)
MaxTasks == 2

ConcurrentOps == {"get_player", "get_match"}

ConcurrentStatuses == {200, 404}

ConcurrentBodies == {PlayerFixture, <<"not found">>}

\* the runtime suspends the running task and resumes the i-th suspended one
Switch(i) ==
    /\ i \in 1..Len(parked)
    /\ call' = parked[i]
    /\ parked' = [parked EXCEPT ![i] = call]
    /\ UNCHANGED <<client, builder, handle, dto>>

InitConcurrent ==
    /\ client = [base_url |-> DEFAULT_BASE_URL, api_key |-> SomeStr(<<"test-key">>),
                 reqwest_client |-> [timeout |-> DEFAULT_TIMEOUT]]
    /\ call = Idle
    /\ builder = BuilderOf(client)
    /\ handle = NoHandle
    /\ parked = [i \in 1..(MaxTasks - 1) |-> Idle]
    /\ dto = NoDto

NextConcurrent ==
    \/ /\ call.pc = "idle"
       /\ \E op \in ConcurrentOps : \E args \in ArgSpace(op) : Call(op, args)
    \/ SendFails
    \/ \E status \in ConcurrentStatuses : SendCompletes(status)
    \/ \E body \in ConcurrentBodies : ReadText(body)
    \/ ReadTextFails
    \/ Respond
    \/ Return
    \/ \E i \in 1..(MaxTasks - 1) : Switch(i)

SpecConcurrent == InitConcurrent /\ [][NextConcurrent]_vars

(***************************************************************************)
(* Serialize, as derived by serde for the types of types.rs, and the round *)
(* trip serde_json::to_string, then serde_json::from_str.                  *)
(***************************************************************************)
\* the texts of parts with "," between them
RECURSIVE JoinLexemes(_, _)
JoinLexemes(parts, k) ==
    IF k > Len(parts) THEN <<>>
    ELSE (IF k = 1 THEN <<>> ELSE <<",">>) \o parts[k] \o JoinLexemes(parts, k + 1)

\* the elements of a finite set in some order, as a HashMap iterates
RECURSIVE SetToSeq(_)
SetToSeq(S) ==
    IF S = {} THEN <<>>
    ELSE LET x == CHOOSE y \in S : TRUE IN <<x>> \o SetToSeq(S \ {x})

\* serde_json::Value written as JSON
RECURSIVE WriteJson(_)
WriteJson(v) ==
    CASE v[1] = "null" -> <<"null">>
      [] v[1] \in {"num", "bool"} -> <<v[2]>>
      [] v[1] = "str" -> <<Quote(v[2])>>
      [] v[1] = "arr" ->
            <<"[">> \o JoinLexemes([k \in 1..Len(v[2]) |-> WriteJson(v[2][k])], 1) \o <<"]">>
      [] v[1] = "obj" ->
            <<"{">> \o JoinLexemes([k \in 1..Len(v[2]) |->
                                       <<Quote(v[2][k][1]), ":">> \o WriteJson(v[2][k][2])], 1)
                \o <<"}">>

\* the f64 values that are no numbers of JSON
NonFinite == {"inf", "NaN"}

\* Serialize::serialize into serde_json: every field of a struct is written,
\* under its serde name, None as null
RECURSIVE Serialize(_)
Serialize(val) ==
    CASE val[1] \in {"String", "DateTime"} -> <<Quote(val[2])>>
      [] val[1] \in {"i64", "bool"} -> <<val[2]>>
      \* serde_json writes a NaN or an infinity as null
      [] val[1] = "f64" -> IF val[2] \in NonFinite THEN <<"null">> ELSE <<val[2]>>
      [] val[1] = "Value" -> WriteJson(val[2])
      [] val[1] = "None" -> <<"null">>
      [] val[1] = "Some" -> Serialize(val[2])
      [] val[1] = "Vec" ->
            <<"[">> \o JoinLexemes([k \in 1..Len(val[2]) |-> Serialize(val[2][k])], 1)
                \o <<"]">>
      [] val[1] = "Map" ->
            LET es == SetToSeq(val[2]) IN
            <<"{">> \o JoinLexemes([k \in 1..Len(es) |->
                                       <<Quote(es[k][1]), ":">> \o Serialize(es[k][2])], 1)
                \o <<"}">>
      [] val[1] = "struct" ->
            <<"{">> \o JoinLexemes([k \in 1..Len(val[3]) |->
                                       <<Quote(Fields(val[2])[k].name), ":">>
                                           \o Serialize(val[3][k])], 1)
                \o <<"}">>

\* the values the serde_json::Value and the f64 fields are given
Samples ==
    {[v |-> <<"null">>, f |-> "inf"], [v |-> <<"num", "0">>, f |-> "1.5"],
     [v |-> <<"str", "x">>, f |-> "1.5"], [v |-> <<"arr", << <<"null">> >> >>, f |-> "NaN"]}

\* a value of the type: the struct T with Some in the optional fields of the
\* set some and None in the others, the sample j in the Value and f64 fields
RECURSIVE SampleOf(_, _), StructValue(_, _, _)
SampleOf(ty, j) ==
    LET one == CASE ty.t = "String" -> <<"String", "x">>
                 [] ty.t = "i64" -> <<"i64", "20">>
                 [] ty.t = "f64" -> <<"f64", j.f>>
                 [] ty.t = "bool" -> <<"bool", "true">>
                 [] ty.t = "DateTime" -> <<"DateTime", "2024-01-01T00:00:00Z">>
                 [] ty.t = "Value" -> <<"Value", j.v>>
                 [] OTHER -> StructValue(ty.t, {}, j)
    IN CASE ty.c = "one" -> one
         [] ty.c = "vec" -> <<"Vec", <<one>> >>
         [] ty.c = "map" -> <<"Map", {<<"x", one>>}>>

StructValue(T, some, j) ==
    <<"struct", T,
      [k \in 1..Len(Fields(T)) |->
          IF ~Fields(T)[k].optional THEN SampleOf(Fields(T)[k].ty, j)
          ELSE IF k \in some THEN <<"Some", SampleOf(Fields(T)[k].ty, j)>>
          ELSE <<"None">>]>>

OptionalIndices(T) == {k \in 1..Len(Fields(T)) : Fields(T)[k].optional}

\* the values that are serialized: no optional field, every optional field,
\* or one optional field present
DtoValues(T) ==
    {StructValue(T, some, j) :
        some \in {{}, OptionalIndices(T)} \cup {{k} : k \in OptionalIndices(T)},
        j \in Samples}

\* serde_json::to_string(&value)
ToJson ==
    /\ dto.pc = "value"
    /\ dto' = [dto EXCEPT !.pc = "text", !.text = Serialize(dto.value)]
    /\ UNCHANGED <<client, call, builder, handle, parked>>

\* serde_json::from_str::<T>(&text)
FromJson ==
    /\ dto.pc = "text"
    /\ dto' = [dto EXCEPT !.pc = "back", !.back = from_str(dto.T, dto.text)]
    /\ UNCHANGED <<client, call, builder, handle, parked>>

InitRoundTrip ==
    /\ client = [base_url |-> DEFAULT_BASE_URL, api_key |-> None,
                 reqwest_client |-> [timeout |-> DEFAULT_TIMEOUT]]
    /\ call = Idle
    /\ builder = BuilderOf(client)
    /\ handle = NoHandle
    /\ parked = <<>>
    /\ \E T \in StructNames : \E value \in DtoValues(T) :
          dto = [NoDto EXCEPT !.pc = "value", !.T = T, !.value = value]

\* the value that was read is serialized in its turn
Reencode ==
    /\ dto.pc = "back"
    /\ dto.back.ok
    /\ ~dto.decoded
    /\ dto' = [NoDto EXCEPT !.pc = "value", !.T = dto.T, !.value = dto.back.val,
                            !.decoded = TRUE]
    /\ UNCHANGED <<client, call, builder, handle, parked>>

NextRoundTrip == ToJson \/ FromJson \/ Reencode

SpecRoundTrip == InitRoundTrip /\ [][NextRoundTrip]_vars

(***************************************************************************)
(* Properties                                                              *)
(***************************************************************************)

\* handle_response has tested the status of a response whose body it read
Classified == call.pc = "done" /\ call.branched

\* C1: a response with status 400, 403, 404, 429 or 503 yields
\* Error::Api(status, label + raw body), the label fixed per status.
C1_LabelledApiError ==
    (Classified /\ call.status \in {400, 403, 404, 429, 503}) =>
        /\ call.outcome.kind = "Api"
        /\ call.outcome.code = call.status
        /\ call.outcome.msg =
              (CASE call.status = 400 -> <<"Bad request: ">>
                 [] call.status = 403 -> <<"Forbidden: ">>
                 [] call.status = 404 -> <<"Not found: ">>
                 [] call.status = 429 -> <<"Too many requests: ">>
                 [] call.status = 503 -> <<"Service temporarily unavailable: ">>)
              \o call.response_text

C1_Witness ==
    /\ Classified
    /\ call.status = 404
    /\ call.response_text = <<"not found">>
    /\ call.outcome.code = 404
    /\ Contains(call.outcome.msg, <<"not found">>)

\* C2: a response with status 401 yields Error::InvalidApiKey, which carries
\* no text, whatever the body is.
C2_InvalidApiKey ==
    (Classified /\ call.status = 401) =>
        /\ call.outcome.kind = "InvalidApiKey"
        /\ call.outcome.msg = <<>>
        /\ call.outcome.value = <<>>

C2_Witness ==
    /\ Classified
    /\ call.status = 401
    /\ call.T = "Player"
    /\ call.response_text = PlayerFixture
    /\ call.outcome.kind = "InvalidApiKey"

\* C3 as stated: a response with status 500 yields Error::ServerError and the
\* classifier has not read its body.
C3_Original ==
    (Classified /\ call.status = 500) =>
        /\ call.outcome.kind = "ServerError"
        /\ call.reads = 0

\* C3 amended: a response with status 500 whose body was read yields
\* Error::ServerError, which carries no body text; the body had been read
\* once when the status was tested.
C3_ServerError ==
    (Classified /\ call.status = 500) =>
        /\ call.outcome.kind = "ServerError"
        /\ call.outcome.msg = <<>>
        /\ call.reads = 1

C3_Witness ==
    /\ Classified
    /\ call.status = 500
    /\ call.response_text = <<"not found">>
    /\ call.outcome.kind = "ServerError"

\* C4: a response with any other status outside 200-299 yields
\* Error::Api(status, raw body), nothing added to or removed from the body.
C4_GenericApiError ==
    (/\ Classified
     /\ ~(200 <= call.status /\ call.status <= 299)
     /\ call.status \notin {400, 401, 403, 404, 429, 500, 503}) =>
        /\ call.outcome.kind = "Api"
        /\ call.outcome.code = call.status
        /\ call.outcome.msg = call.response_text

C4_Witness ==
    /\ Classified
    /\ call.status = 418
    /\ call.outcome.kind = "Api"
    /\ call.outcome.code = 418
    /\ call.outcome.msg = <<"not found">>

\* C5: the operation returns Ok exactly when the status is in 200-299 and the
\* body decodes as the result type, and then Ok holds the decoded body.
C5_SuccessIff ==
    call.pc = "done" =>
        /\ call.outcome.kind = "Ok" <=>
              /\ Classified
              /\ 200 <= call.status /\ call.status <= 299
              /\ from_str(call.T, call.response_text).ok
        /\ call.outcome.kind = "Ok" =>
              call.outcome.value = from_str(call.T, call.response_text).val

C5_Witness ==
    /\ call.pc = "done"
    /\ call.status = 200
    /\ call.response_text = PlayerFixture
    /\ call.outcome.kind = "Ok"
    /\ call.outcome.value[2] = "Player"
    /\ call.outcome.value[3][1] = <<"String", "p1">>
    /\ call.outcome.value[3][2] = <<"String", "foo">>
    /\ \A k \in 3..16 : call.outcome.value[3][k] = <<"None">>

C7_JsonError ==
    (/\ Classified
     /\ 200 <= call.status /\ call.status <= 299
     /\ ~from_str(call.T, call.response_text).ok) =>
        call.outcome.kind = "Json"

\* C8: when request.send() fails the operation returns Error::Http at once:
\* handle_response is not entered, the body is not read, the status is not
\* tested, nothing is decoded and one request was sent.
C8_TransportError ==
    /\ call.send_failed =>
          /\ call.pc = "done"
          /\ call.outcome.kind = "Http"
          /\ ~call.entered
          /\ call.reads = 0
          /\ ~call.branched
          /\ ~call.decoded
          /\ call.sends = 1
    /\ (call.pc = "done" /\ ~call.entered) => call.send_failed

C8_Witness ==
    /\ call.send_failed
    /\ call.pc = "done"
    /\ call.outcome.kind = "Http"
    /\ call.op = "get_player"

\* C9: handle_response reads the body once, before it tests the status, for
\* every status; what it returns is computed from that text.
C9_BodyReadOnceBeforeBranch ==
    /\ call.reads <= 1
    /\ call.pc = "classify" => (call.reads = 1 /\ ~call.branched)
    /\ call.branched => call.reads = 1
    /\ (Classified /\ call.outcome.kind = "Api") =>
          Contains(call.outcome.msg, call.response_text)

C9_Witness ==
    /\ call.pc = "classify"
    /\ call.status = 401
    /\ call.reads = 1
    /\ ~call.branched
    /\ call.response_text = <<"{">>

\* C10: an optional query parameter is in the query exactly when its argument
\* is Some, then once and with the caller's value; the name of an absent
\* parameter does not occur.
C10_OptionalQuery ==
    call.pc # "idle" =>
        \A k \in 1..Len(OpDef(call.op).params) :
            LET p == OpDef(call.op).params[k]
                v == call.args[p.arg]
                at == {j \in 1..Len(call.request.query) : call.request.query[j][1] = p.name}
            IN  ~p.required =>
                    /\ v.some <=> at # {}
                    /\ Cardinality(at) <= 1
                    /\ \A j \in at :
                          call.request.query[j][2] =
                              (CASE v = SomeInt(20) -> <<"2", "0">>
                                 [] v = SomeStr(<<"cs2">>) -> <<"cs2">>
                                 [] v = SomeList(<< <<"organizer">>, <<"game">> >>) ->
                                        <<"organizer", ",", "game">>)

C10_Witness ==
    /\ call.pc = "sending"
    /\ call.op = "get_player_bans"
    /\ call.args["offset"] = None
    /\ call.args["limit"] = SomeInt(20)
    /\ call.request.query = << <<"limit", <<"2", "0">> >> >>

\* C11: a request carries the header Authorization: "Bearer <key>" exactly
\* when the client has an api key, once and with the key of the client.
C11_BearerHeader ==
    call.pc # "idle" =>
        LET auth == {j \in 1..Len(call.request.headers) :
                        call.request.headers[j][1] = "Authorization"}
        IN  /\ client.api_key.some <=> auth # {}
            /\ Cardinality(auth) <= 1
            /\ \A j \in auth :
                  call.request.headers[j][2] = <<"Bearer ">> \o client.api_key.s
            /\ ~client.api_key.some => call.request.headers = <<>>

C11_Witness ==
    /\ call.pc = "sending"
    /\ call.op = "get_match"
    /\ client.api_key = SomeStr(<<"test-key">>)
    /\ call.request.headers = << <<"Authorization", <<"Bearer ", "test-key">> >> >>

\* the number a text of decimal digits denotes; -1 for any other text
DigitValue(c) ==
    CASE c = "0" -> 0 [] c = "1" -> 1 [] c = "2" -> 2 [] c = "3" -> 3
      [] c = "4" -> 4 [] c = "5" -> 5 [] c = "6" -> 6 [] c = "7" -> 7
      [] c = "8" -> 8 [] c = "9" -> 9 [] OTHER -> -1

RECURSIVE DigitsValue(_, _)
DigitsValue(t, acc) ==
    IF t = <<>> THEN acc
    ELSE IF DigitValue(Head(t)) < 0 THEN -1
    ELSE DigitsValue(Tail(t), acc * 10 + DigitValue(Head(t)))

IsDigits(t) == t # <<>> /\ \A k \in 1..Len(t) : DigitValue(t[k]) >= 0

\* the values the query holds under a name
QueryValues(name) ==
    {call.request.query[j][2] :
        j \in {j \in 1..Len(call.request.query) : call.request.query[j][1] = name}}

\* C12: offset and limit are not validated, clamped or reinterpreted: whatever
\* the number, the request is sent and the query holds that number; the
\* error the server answers is classified like any other response.
C12_NoValidation ==
    call.pc # "idle" =>
        /\ call.sends = 1
        /\ \A k \in 1..Len(OpDef(call.op).params) :
              LET p == OpDef(call.op).params[k]
                  v == call.args[p.arg]
              IN  (p.name \in {"offset", "limit"} /\ v.some) =>
                      \E t \in QueryValues(p.name) :
                          /\ QueryValues(p.name) = {t}
                          /\ IF v.i < 0
                             THEN t[1] = "-" /\ DigitsValue(Tail(t), 0) = 0 - v.i
                             ELSE DigitsValue(t, 0) = v.i
        /\ (Classified /\ call.status = 400) =>
              call.outcome = ErrorApi(400, <<"Bad request: ">> \o call.response_text)

C12_Witness ==
    /\ Classified
    /\ call.op = "get_all_games"
    /\ call.args["offset"] = SomeInt(-1)
    /\ call.args["limit"] = SomeInt(1000000)
    /\ call.request.query =
          << <<"offset", <<"-", "1">> >>,
             <<"limit", <<"1", "0", "0", "0", "0", "0", "0">> >> >>
    /\ call.status = 400
    /\ call.outcome.kind = "Api"

\* the number of decimal digits of a natural number
RECURSIVE DigitCount(_)
DigitCount(n) == IF n < 10 THEN 1 ELSE 1 + DigitCount(n \div 10)

\* C13: a numeric query parameter is sent as the plain decimal text of its
\* value: digits only, '-' in front exactly for a negative value, as many
\* digits as the value has, and different values give different texts.
C13_PlainDecimal ==
    call.pc # "idle" =>
        \A k \in 1..Len(OpDef(call.op).params) :
            LET p == OpDef(call.op).params[k]
                v == call.args[p.arg]
            IN  (p.kind = "i64" /\ v.some) =>
                    \A t \in QueryValues(p.name) :
                        LET digits == IF v.i < 0 THEN Tail(t) ELSE t
                            abs == IF v.i < 0 THEN 0 - v.i ELSE v.i
                        IN  /\ t # <<>>
                            /\ v.i < 0 <=> t[1] = "-"
                            /\ IsDigits(digits)
                            /\ Len(digits) = DigitCount(abs)
                            /\ Len(digits) > 1 => digits[1] # "0"
                            /\ \A n \in IntSamples : to_string(n) = t => n = v.i

C13_Witness ==
    /\ call.pc = "sending"
    /\ call.op = "get_player_history"
    /\ call.args["from"] = SomeInt(-2147483647)
    /\ call.args["to"] = SomeInt(2147483647)
    /\ call.args["offset"] = None
    /\ call.args["limit"] = None
    /\ call.request.query =
          << <<"game", <<"cs2">> >>,
             <<"from", <<"-", "2", "1", "4", "7", "4", "8", "3", "6", "4", "7">> >>,
             <<"to", <<"2", "1", "4", "7", "4", "8", "3", "6", "4", "7">> >> >>

\* C14: a 2xx body decodes when only optional fields are absent, each of them
\* then None, and does not decode when a mandatory field is absent or has a
\* value of another type.
C14_MandatoryAndOptional ==
    (Classified /\ 200 <= call.status /\ call.status <= 299) =>
        /\ call.response_text = MinimalBody(call.T) =>
              /\ call.outcome.kind = "Ok"
              /\ call.outcome.value[2] = call.T
              /\ \A k \in 1..Len(Fields(call.T)) :
                    Fields(call.T)[k].optional <=> call.outcome.value[3][k] = <<"None">>
        /\ \A k \in MandatoryIndices(call.T) :
              call.response_text \in {WithoutField(call.T, k), WrongType(call.T, k)} =>
                  /\ call.outcome.kind = "Api"
                  /\ call.outcome.code = call.status
        /\ (call.T = "Player" /\ call.response_text = PlayerFixture) =>
              call.outcome =
                  Ok(<<"struct", "Player",
                       << <<"String", "p1">>, <<"String", "foo">> >>
                           \o [k \in 1..14 |-> <<"None">>]>>)

C14_Witness ==
    /\ Classified
    /\ call.op = "get_player_from_lookup"
    /\ call.status = 200
    /\ call.response_text = PlayerFixture
    /\ call.outcome.kind = "Ok"
    /\ call.outcome.value[3][3] = <<"None">>

\* the operation of the client each wrapper method stands for
C15_CoreOperation(via) ==
    CASE via = "Player::get" -> "get_player"
      [] via = "Player::stats" -> "get_player_stats"
      [] via = "Player::history" -> "get_player_history"
      [] via = "Player::bans" -> "get_player_bans"
      [] via = "Player::hubs" -> "get_player_hubs"
      [] via = "Player::teams" -> "get_player_teams"
      [] via = "Player::tournaments" -> "get_player_tournaments"
      [] via = "Match::get" -> "get_match"
      [] via = "Match::stats" -> "get_match_stats"
      [] via = "Game::get" -> "get_game"
      [] via = "Game::parent" -> "get_parent_game"
      [] via = "Game::matchmakings" -> "get_game_matchmakings"
      [] via = "Hub::get" -> "get_hub"
      [] via = "Hub::matches" -> "get_hub_matches"
      [] via = "Hub::members" -> "get_hub_members"
      [] via = "Hub::stats" -> "get_hub_stats"
      [] via = "Championship::get" -> "get_championship"
      [] via = "Championship::matches" -> "get_championship_matches"

\* the path parameter the identifier of a handle stands for
C15_IdParam(kind) ==
    CASE kind = "Player" -> "{player_id}"
      [] kind = "Match" -> "{match_id}"
      [] kind = "Game" -> "{game_id}"
      [] kind = "Hub" -> "{hub_id}"
      [] kind = "Championship" -> "{championship_id}"

\* the arguments of the direct call: the identifier of the handle, and the
\* arguments of the method under their own names
C15_DirectArgs(op, h, wargs) ==
    [x \in PathArgs(op) \cup QueryArgs(op) |->
        IF x = C15_IdParam(h.kind) THEN SomeStr(id(h))
        ELSE IF x = "{game_id}" THEN wargs["game_id"]
        ELSE wargs[x]]

\* C15: a wrapper method sends the request of the corresponding operation of
\* the client called with the identifier of the handle and the method's own
\* arguments, ends in the outcome of that operation, and leaves the
\* identifier of the handle as it was.
C15_Delegation ==
    call.via # "" =>
        LET op == C15_CoreOperation(call.via) IN
        /\ call.request = BuildRequest(client, op, C15_DirectArgs(op, handle, call.wargs))
        /\ call.T = OpDef(op).result
        /\ call.sends = 1
        /\ Classified => call.outcome = Classify(call.status, call.response_text,
                                                 OpDef(op).result)
        /\ call.send_failed => call.outcome = FromReqwestError
        /\ id(handle) \in HandleIds
        /\ call.args[C15_IdParam(handle.kind)] = SomeStr(id(handle))

C15_Witness ==
    /\ Classified
    /\ call.via = "Player::history"
    /\ id(handle) = <<"h-42">>
    /\ call.wargs["offset"] = None
    /\ call.wargs["limit"] = SomeInt(20)
    /\ call.wargs["from"] = None
    /\ call.request.url = <<"https://open.faceit.com", "/data/v4/players/", "h-42", "/history">>
    /\ call.request.query = << <<"game", <<"cs2">> >>, <<"limit", <<"2", "0">> >> >>
    /\ call.status = 404

\* C16: once built, the base URL and the API key of the client stay what
\* they are through every step of every call, and each request is made with
\* that base URL and carries that API key, or no Authorization header when
\* there is none.
C16_ConfigImmutable ==
    [][builder.stage = "built" =>
          /\ Client_base_url(client') = Client_base_url(client)
          /\ Client_api_key(client') = Client_api_key(client)
          /\ call'.pc # "idle" =>
                /\ SubSeq(call'.request.url, 1, Len(Client_base_url(client)))
                      = Client_base_url(client)
                /\ call'.request.headers =
                      IF Client_api_key(client).some
                      THEN << <<"Authorization",
                                <<"Bearer ">> \o Client_api_key(client).s>> >>
                      ELSE <<>>]_vars

C16_Witness ==
    /\ builder.stage = "built"
    /\ Classified
    /\ call.status = 401
    /\ call.outcome = ErrorInvalidApiKey
    /\ Client_base_url(client) = <<"https://custom.api.com">>
    /\ Client_api_key(client) = SomeStr(<<"k2">>)
    /\ call.request.headers = << <<"Authorization", <<"Bearer ", "k2">> >> >>

\* C19: the client that build() returns has the base URL given to the
\* builder, or "https://open.faceit.com" when none was given, and the API key
\* given to the builder, or None when none was given.
C19_BuilderReflected ==
    builder.stage = "built" =>
        /\ \A u \in BaseUrls :
              builder.base_url = SomeStr(u) => Client_base_url(client) = u
        /\ builder.base_url = None =>
              Client_base_url(client) = <<"https://open.faceit.com">>
        /\ \A k \in ApiKeys :
              builder.api_key = SomeStr(k) => Client_api_key(client) = SomeStr(k)
        /\ builder.api_key = None => Client_api_key(client) = None
        /\ builder = [ClientBuilder_new EXCEPT !.stage = "built"] =>
              /\ Client_base_url(client) = <<"https://open.faceit.com">>
              /\ Client_api_key(client) = None

C19_Witness ==
    /\ builder.stage = "built"
    /\ builder.base_url = SomeStr(<<"https://custom.api.com">>)
    /\ builder.api_key = SomeStr(<<"test-key">>)
    /\ Client_base_url(client) = <<"https://custom.api.com">>
    /\ Client_api_key(client) = SomeStr(<<"test-key">>)
    /\ call.pc = "idle"

\* the resource path of each operation, the identifiers a[..] in their places
C20_ResourcePath(op, a) ==
    LET player == a["{player_id}"].s
        game == a["{game_id}"].s
        match == a["{match_id}"].s
        hub == a["{hub_id}"].s
        championship == a["{championship_id}"].s
        region == a["{region}"].s
    IN
    CASE op = "get_player" -> <<"/data/v4/players/">> \o player
      [] op = "get_player_from_lookup" -> <<"/data/v4/players">>
      [] op = "get_player_stats" ->
            <<"/data/v4/players/">> \o player \o <<"/stats/">> \o game
      [] op = "get_player_history" -> <<"/data/v4/players/">> \o player \o <<"/history">>
      [] op = "get_player_bans" -> <<"/data/v4/players/">> \o player \o <<"/bans">>
      [] op = "get_player_hubs" -> <<"/data/v4/players/">> \o player \o <<"/hubs">>
      [] op = "get_player_teams" -> <<"/data/v4/players/">> \o player \o <<"/teams">>
      [] op = "get_player_tournaments" ->
            <<"/data/v4/players/">> \o player \o <<"/tournaments">>
      [] op = "get_match" -> <<"/data/v4/matches/">> \o match
      [] op = "get_match_stats" -> <<"/data/v4/matches/">> \o match \o <<"/stats">>
      [] op = "get_all_games" -> <<"/data/v4/games">>
      [] op = "get_game" -> <<"/data/v4/games/">> \o game
      [] op = "get_parent_game" -> <<"/data/v4/games/">> \o game \o <<"/parent">>
      [] op = "get_game_matchmakings" ->
            <<"/data/v4/games/">> \o game \o <<"/matchmakings">>
      [] op = "get_hub" -> <<"/data/v4/hubs/">> \o hub
      [] op = "get_hub_matches" -> <<"/data/v4/hubs/">> \o hub \o <<"/matches">>
      [] op = "get_hub_members" -> <<"/data/v4/hubs/">> \o hub \o <<"/members">>
      [] op = "get_hub_stats" -> <<"/data/v4/hubs/">> \o hub \o <<"/stats">>
      [] op = "get_championships" -> <<"/data/v4/championships">>
      [] op = "get_championship" -> <<"/data/v4/championships/">> \o championship
      [] op = "get_championship_matches" ->
            <<"/data/v4/championships/">> \o championship \o <<"/matches">>
      [] op = "search_players" -> <<"/data/v4/search/players">>
      [] op = "search_teams" -> <<"/data/v4/search/teams">>
      [] op = "search_hubs" -> <<"/data/v4/search/hubs">>
      [] op = "get_global_ranking" ->
            <<"/data/v4/rankings/games/">> \o game \o <<"/regions/">> \o region
      [] op = "get_player_ranking" ->
            <<"/data/v4/rankings/games/">> \o game \o <<"/regions/">> \o region
                \o <<"/players/">> \o player

\* C20: the request of every operation is a GET whose URL is the base URL of
\* the client followed by the resource path of the operation with each
\* identifier in its place exactly as given: empty, or holding "/" or "?",
\* after a base URL that may end in "/".
C20_VerbatimUrl ==
    call.pc # "idle" =>
        /\ call.request.method = "GET"
        /\ call.request.url =
              Client_base_url(client) \o C20_ResourcePath(call.op, call.args)

C20_Witness ==
    /\ call.pc = "sending"
    /\ call.op = "get_player_ranking"
    /\ Client_base_url(client) = <<"https://x/">>
    /\ call.args["{game_id}"] = SomeStr(<<"a/b?c">>)
    /\ call.args["{region}"] = SomeStr(<<>>)
    /\ call.args["{player_id}"] = SomeStr(<<"p1">>)
    /\ call.request.url =
          <<"https://x/", "/data/v4/rankings/games/", "a/b?c", "/regions/", "/players/", "p1">>

\* C17: a call sends one request and no other: the count of requests is 1
\* from the call to its return whatever happens in between, and once the
\* call has its result, error or not, the only step left is its return.
C17_OneRequestPerCall ==
    [][/\ call'.pc # "idle" => call'.sends = 1
       /\ (call.pc # "idle" /\ call'.pc # "idle") =>
             /\ call'.request = call.request
             /\ call'.pc # "sending"
       /\ call.pc = "done" => call'.pc = "idle"
       /\ call'.pc = "done" => call'.outcome # NoOutcome]_vars

C17_Witness ==
    /\ Classified
    /\ call.status = 429
    /\ call.sends = 1
    /\ call.outcome.kind = "Api"
    /\ call.outcome.code = 429
    /\ call.op = "get_player_history"

\* the calls in flight after a step: the running one and the suspended ones
C18_TasksAfter == {call'} \cup {parked'[i] : i \in 1..Len(parked')}

\* C18: with several calls in flight on one client, under every interleaving
\* of their steps, each call keeps the request it was made with, ends in the
\* classification of the status and the body of its own response, and the
\* client is never changed.
C18_NoInterference ==
    [][/\ client' = client
       /\ \A t \in C18_TasksAfter :
             /\ t.pc # "idle" => t.request = BuildRequest(client, t.op, t.args)
             /\ (t.pc = "done" /\ t.branched) =>
                   t.outcome = Classify(t.status, t.response_text, t.T)
             /\ (t.pc = "done" /\ ~t.branched) => t.outcome = FromReqwestError
       /\ \A i \in 1..Len(parked) :
             parked'[i] # parked[i] => (parked'[i] = call /\ call' = parked[i])]_vars

C18_Witness ==
    /\ Len(parked) >= 1
    /\ call.pc = "done" /\ call.branched
    /\ call.op = "get_player" /\ call.status = 200
    /\ call.response_text = PlayerFixture
    /\ call.outcome.kind = "Ok"
    /\ parked[1].pc = "classify"
    /\ parked[1].op = "get_match" /\ parked[1].status = 404
    /\ parked[1].response_text = <<"not found">>

C21_WrittenAsNull(x) ==
    \/ x = <<"Some", <<"Value", <<"null">> >> >>
    \/ \E n \in NonFinite : x = <<"Some", <<"f64", n>> >>

C22_BuildNeverPanics ==
    /\ builder.stage \in {"new", "built", "failed", "panicked"}
    /\ builder.stage = "built" =>
          /\ builder.client_builder.builds
          /\ client # NoClient
          /\ Fresh(builder) =>
                client = [base_url |-> <<"https://open.faceit.com">>, api_key |-> None,
                          reqwest_client |-> [timeout |-> 30]]
    /\ builder.stage = "failed" =>
          /\ ~builder.client_builder.builds
          /\ client = NoClient
          /\ call.pc = "idle"
    /\ builder.stage = "panicked" =>
          /\ Fresh(builder)
          /\ ~builder.client_builder.builds
          /\ client = NoClient
          /\ call.pc = "idle"

C22_Witness ==
    /\ builder.stage = "failed"
    /\ builder.base_url = SomeStr(<<"https://custom.api.com">>)
    /\ builder.api_key = SomeStr(<<"test-key">>)
    /\ ~builder.client_builder.builds
    /\ client = NoClient

\* the names of the query pairs, in the order they are sent
C23_Names == [j \in 1..Len(call.request.query) |-> call.request.query[j][1]]

\* s holds elements of t in the order of t, none twice
C23_InOrderOf(s, t) ==
    \E pos \in [1..Len(s) -> 1..Len(t)] :
        /\ \A j \in 1..Len(s) : s[j] = t[pos[j]]
        /\ \A j \in 1..(Len(s) - 1) : pos[j] < pos[j + 1]

\* C23: a required query argument is always sent, and first: game for
\* get_player_history and get_championships, nickname for search_players and
\* search_teams, name for search_hubs; the optional parameters that are
\* given follow in the order of declaration, whichever of them are given.
C23_QueryOrder ==
    call.pc # "idle" =>
        LET q == call.request.query
            params == OpDef(call.op).params
        IN  /\ call.op \in {"get_player_history", "get_championships"} =>
                  /\ Len(q) >= 1
                  /\ q[1] = <<"game", call.args["game"].s>>
            /\ call.op \in {"search_players", "search_teams"} =>
                  /\ Len(q) >= 1
                  /\ q[1] = <<"nickname", call.args["nickname"].s>>
            /\ call.op = "search_hubs" =>
                  /\ Len(q) >= 1
                  /\ q[1] = <<"name", call.args["name"].s>>
            /\ call.op = "get_player_history" =>
                  C23_InOrderOf(C23_Names, <<"game", "from", "to", "offset", "limit">>)
            /\ call.op = "search_players" =>
                  C23_InOrderOf(C23_Names, <<"nickname", "game", "country", "offset", "limit">>)
            /\ call.op = "get_championships" =>
                  C23_InOrderOf(C23_Names, <<"game", "type", "offset", "limit">>)
            /\ C23_InOrderOf(C23_Names, [k \in 1..Len(params) |-> params[k].name])
            /\ \A k \in 1..Len(params) :
                  params[k].required => \E j \in 1..Len(q) : q[j][1] = params[k].name

C23_Witness ==
    /\ call.pc = "sending"
    /\ call.op = "get_player_history"
    /\ call.args["from"] = None
    /\ call.args["to"] = SomeInt(20)
    /\ call.args["offset"] = None
    /\ call.args["limit"] = SomeInt(0)
    /\ call.request.query =
          << <<"game", <<"cs2">> >>, <<"to", <<"2", "0">> >>, <<"limit", <<"0">> >> >>

\* C24: get_hub and get_championship given expanded = Some(list) send one
\* parameter, expanded, whose value is the elements of the list with ","
\* between them, in the order given and as often as given; given None they
\* send no parameter.
C24_ExpandedJoined ==
    (call.pc # "idle" /\ call.op \in {"get_hub", "get_championship"}) =>
        LET q == call.request.query
            e == call.args["expanded"]
        IN  /\ ~e.some => q = <<>>
            /\ e.some =>
                  /\ Len(q) = 1
                  /\ q[1][1] = "expanded"
                  /\ e.l = <<>> => q[1][2] = <<>>
                  /\ e.l = << <<"game">> >> => q[1][2] = <<"game">>
                  /\ e.l = << <<"organizer">>, <<"game">> >> =>
                        q[1][2] = <<"organizer", ",", "game">>
                  /\ e.l = << <<"game">>, <<"organizer">> >> =>
                        q[1][2] = <<"game", ",", "organizer">>
                  /\ e.l = << <<"game">>, <<"organizer">>, <<"game">> >> =>
                        q[1][2] = <<"game", ",", "organizer", ",", "game">>
                  /\ Len(q[1][2]) = IF e.l = <<>> THEN 0 ELSE 2 * Len(e.l) - 1
                  /\ \A k \in 1..Len(e.l) : <<q[1][2][2 * k - 1]>> = e.l[k]

C24_Witness ==
    /\ call.pc = "sending"
    /\ call.op = "get_championship"
    /\ call.args["expanded"] = SomeList(<< <<"game">>, <<"organizer">>, <<"game">> >>)
    /\ call.request.query =
          << <<"expanded", <<"game", ",", "organizer", ",", "game">> >> >>

\* C25: an optional parameter is sent exactly when its argument is Some,
\* whatever the value: Some("") and Some(empty list) are sent as a
\* parameter with an empty value.
C25_SomeAloneDecides ==
    call.pc # "idle" =>
        LET q == call.request.query
            params == OpDef(call.op).params
        IN  \A k \in 1..Len(params) :
               LET p == params[k]
                   v == call.args[p.arg]
                   sent == {j \in 1..Len(q) : q[j][1] = p.name}
               IN  /\ ~p.required =>
                         Cardinality(sent) = IF v.some THEN 1 ELSE 0
                   /\ (p.kind = "str" /\ v = SomeStr(<<>>)) \/ (p.kind = "list" /\ v = SomeList(<<>>)) =>
                         \E j \in sent : q[j] = <<p.name, <<>> >>

C25_Witness ==
    /\ call.pc = "sending"
    /\ call.op = "search_players"
    /\ call.args["game"] = SomeStr(<<>>)
    /\ call.args["country"] = None
    /\ call.args["offset"] = None
    /\ call.args["limit"] = None
    /\ call.request.query = << <<"nickname", <<"cs2">> >>, <<"game", <<>> >> >>

\* C26: when the body cannot be read, handle_response returns the transport
\* error Error::Http whatever the status was: 401 is not InvalidApiKey, 500
\* is not ServerError, a 2xx is not a decode failure; the status is not
\* tested and nothing is decoded.
C26_BodyReadFailure ==
    (call.pc = "done" /\ call.entered /\ ~call.branched) =>
        /\ call.status \in Statuses
        /\ call.outcome = [kind |-> "Http", code |-> 0, msg |-> <<>>, value |-> <<>>]
        /\ call.outcome.kind \notin {"InvalidApiKey", "ServerError", "Api", "Json", "Ok"}
        /\ call.reads = 1
        /\ call.sends = 1
        /\ ~call.decoded
        /\ call.response_text = <<>>

C26_Witness ==
    /\ call.pc = "done"
    /\ call.entered
    /\ ~call.branched
    /\ call.status = 401
    /\ call.outcome.kind = "Http"
    /\ call.op = "get_player_stats"

\* C27: the timeout build() gives the transport is the argument of the last
\* timeout() call, or 30 seconds when there was none: timeout() sets it, no
\* other setter touches it, client_builder() before or after included, and
\* the timeout of the reqwest builder handed to client_builder() is not the
\* one of the client.
C27_LastTimeoutWins ==
    [][/\ \A t \in Timeouts : ClientBuilder_timeout(t) => builder'.timeout = SomeInt(t)
       /\ \A b \in ReqwestBuilders :
             ClientBuilder_client_builder(b) => builder'.timeout = builder.timeout
       /\ builder'.timeout # builder.timeout => \E t \in Timeouts : ClientBuilder_timeout(t)
       /\ (builder.stage = "new" /\ builder'.stage = "built") =>
             /\ client'.reqwest_client.timeout = builder.timeout.i
             /\ builder.timeout.i \in Timeouts \cup {30}
       /\ builder.stage = "built" => client'.reqwest_client = client.reqwest_client]_vars

C27_Witness ==
    /\ builder.stage = "built"
    /\ builder.timeout = SomeInt(30)
    /\ builder.client_builder.timeout = SomeInt(5)
    /\ client.reqwest_client.timeout = 30
    /\ call.pc = "idle"

\* C28: base_url() changes the base URL alone, api_key() the API key alone,
\* timeout() neither of the two; a setter called again replaces the value;
\* the base URL and the API key of the built client are those the builder
\* holds, whatever the order of the calls that set them.
C28_SettersFrame ==
    [][/\ \A u \in BaseUrls :
             ClientBuilder_base_url(u) =>
                /\ builder'.base_url = SomeStr(u)
                /\ builder'.api_key = builder.api_key
                /\ builder'.timeout = builder.timeout
       /\ \A k \in ApiKeys :
             ClientBuilder_api_key(k) =>
                /\ builder'.api_key = SomeStr(k)
                /\ builder'.base_url = builder.base_url
                /\ builder'.timeout = builder.timeout
       /\ \A t \in Timeouts :
             ClientBuilder_timeout(t) =>
                /\ builder'.base_url = builder.base_url
                /\ builder'.api_key = builder.api_key
       /\ builder'.base_url # builder.base_url => \E u \in BaseUrls : ClientBuilder_base_url(u)
       /\ builder'.api_key # builder.api_key => \E k \in ApiKeys : ClientBuilder_api_key(k)
       /\ (builder.stage = "new" /\ builder'.stage = "built") =>
             /\ Client_base_url(client') =
                   IF builder.base_url.some THEN builder.base_url.s
                   ELSE <<"https://open.faceit.com">>
             /\ Client_api_key(client') = builder.api_key]_vars

C28_Witness ==
    /\ builder.stage = "built"
    /\ builder.base_url = SomeStr(<<"https://x/">>)
    /\ builder.api_key = SomeStr(<<"k2">>)
    /\ builder.timeout = SomeInt(90)
    /\ Client_base_url(client) = <<"https://x/">>
    /\ Client_api_key(client) = SomeStr(<<"k2">>)
    /\ client.reqwest_client.timeout = 90

C30_NullUnknownWrong ==
    /\ \A T \in StructNames :
          LET fields == Fields(T)
              names == {fields[k].name : k \in 1..Len(fields)}
          IN  {"start", "end", "items"} \subseteq names =>
                  \A k \in 1..Len(fields) :
                     /\ fields[k].name \in {"start", "end", "items", "position"} =>
                           ~fields[k].optional
                     /\ fields[k].name \in {"from", "to"} =>
                           (T = "MatchHistoryList" /\ fields[k].optional)
    /\ {"position", "start", "end", "items"} \subseteq
          {Fields("PlayerGlobalRanking")[k].name : k \in 1..Len(Fields("PlayerGlobalRanking"))}
    /\ (Classified /\ 200 <= call.status /\ call.status <= 299) =>
          LET T == call.T
              fields == Fields(T)
              minimal == MinimalBody(T)
              absent == from_str(T, minimal)
              text == call.response_text
              n == Len(minimal)
              \* what the body holds after the members of the minimal body
              extra == IF Len(text) > n /\ SubSeq(text, 1, n - 1) = SubSeq(minimal, 1, n - 1)
                       THEN SubSeq(text, n, Len(text)) ELSE <<>>
              sep == IF n = 2 THEN <<>> ELSE <<",">>
              Member(name, v) == sep \o <<Quote(name), ":">> \o v \o <<"}">>
          IN  /\ absent.ok
              /\ extra = Member("zzz", <<"0">>) =>
                    /\ text = WithMember(T, "zzz", <<"0">>)
                    /\ call.outcome = Ok(absent.val)
              /\ \A k \in 1..Len(fields) :
                    LET f == fields[k] IN
                    f.optional =>
                       /\ extra = Member(f.name, <<"null">>) =>
                             /\ text = WithMember(T, f.name, <<"null">>)
                             /\ call.outcome = Ok(absent.val)
                             /\ call.outcome.value[3][k] = <<"None">>
                       /\ (extra = Member(f.name, SampleValue(f.ty))
                              /\ SampleValue(f.ty) # <<"null">>) =>
                             /\ call.outcome.kind = "Ok"
                             /\ call.outcome.value[3][k][1] = "Some"
                       /\ (extra = Member(f.name, WrongValue(f.ty))
                              /\ f.ty # One("Value")) =>
                             /\ call.outcome.kind = "Api"
                             /\ call.outcome.code = call.status
                             /\ ~from_str(T, text).ok
                             /\ Contains(call.outcome.msg, from_str(T, text).diag)
              /\ (T = "PlayerGlobalRanking" /\ text = WithoutField(T, 1)) =>
                    /\ fields[1].name = "position"
                    /\ call.outcome.kind = "Api"
              /\ (T = "MatchHistoryList" /\ text = minimal) =>
                    /\ call.outcome.kind = "Ok"
                    /\ fields[3].name = "from" /\ call.outcome.value[3][3] = <<"None">>
                    /\ fields[4].name = "to" /\ call.outcome.value[3][4] = <<"None">>

C30_Witness ==
    /\ Classified
    /\ call.op = "get_player_history"
    /\ call.status = 200
    /\ call.response_text =
          <<"{", Quote("start"), ":", "0", ",", Quote("end"), ":", "0", ",",
            Quote("items"), ":", "[", "]", ",", Quote("from"), ":", "null", "}">>
    /\ call.outcome.kind = "Ok"
    /\ call.outcome.value[3][3] = <<"None">>

====
